---- MODULE Spec2Model ----
(***************************************************************************)
(* Model of the Tru11 and TBug11 68HC11 host programs: the chunked serial  *)
(* transfer primitives, the bootstrap talker download and the command      *)
(* dispatch, as a sequential state machine whose steps are the transport   *)
(* calls (write_port / read_port) the code issues.                         *)
(***************************************************************************)
EXTENDS Integers, Sequences, FiniteSets, TLC

\* ------------------------------------------------------------------------
\* Program constants
\* ------------------------------------------------------------------------
BOOTLOADER_MAX_BYTE_COUNT == 256
TALKER_MAX_BYTE_COUNT == 256
SREC_ADDR_CHECKSUM_COUNT == 3
TALKER_READ_CMD == 1
TRU11_TALKER_WRITE_CMD == 2
TALKER_WRITE_EE_CMD == 3
TALKER_WRITE_E_CMD == 4
TALKER_WRITE_E20_CMD == 5
TBUG11_TALKER_WRITE_CMD == 65
SYNC_CHAR == 255
SETTLE_DELAY_MS == 75
BAUD_BOOT_FAST == 7618
BAUD_BOOT_SLOW == 1200
BAUD_TALKER == 9600
HPRIO_ADDR == 4156
HPRIO_TEST_MODE == 102
DEFAULT_BUF_SIZE == 256
DEFAULT_SREC_DATALEN == 16
HC11_CONFIG_ADDR == 4159
PPROG_ADDR == 4155
EPROG_ADDR == 4150
BPROT_ADDR == 4149
BPROT_ON == 31
EE_LATCH == 2
EE_BULK_ERASE == 6
EE_ROW_ERASE == 14
EE_BYTE_ERASE == 22
E_LATCH == 32

\* ------------------------------------------------------------------------
\* Bounds of the model
\* ------------------------------------------------------------------------
\* longest buffer handed to a primitive called on its own
MaxLen == 4
\* configured chunk sizes range over 1..MaxChunk (and the default 256)
MaxChunk == 3
\* S1 lines per talker file
MaxLines == 2

\* turns of a loop that makes no progress that are followed
MaxTurns == 2
\* parameters on a command line
MaxArgs == 2
\* read commands that are followed when a region has more than 65536 bytes
MaxReads == 2

\* ------------------------------------------------------------------------
\* Bytes and text
\* ------------------------------------------------------------------------
Byte == 0..255

Min(a, b) == IF a < b THEN a ELSE b

\* (uint8_t)~b
Compl(b) == 255 - b

HexChars == <<"0","1","2","3","4","5","6","7","8","9","A","B","C","D","E","F">>

\* value of a hexadecimal digit as strtoul reads it, -1 for any other character
HexVal(c) ==
  CASE c = "0" -> 0 [] c = "1" -> 1 [] c = "2" -> 2 [] c = "3" -> 3
    [] c = "4" -> 4 [] c = "5" -> 5 [] c = "6" -> 6 [] c = "7" -> 7
    [] c = "8" -> 8 [] c = "9" -> 9
    [] c \in {"A", "a"} -> 10 [] c \in {"B", "b"} -> 11
    [] c \in {"C", "c"} -> 12 [] c \in {"D", "d"} -> 13
    [] c \in {"E", "e"} -> 14 [] c \in {"F", "f"} -> 15
    [] OTHER -> -1

\* std::string::substr(pos, 2) of a text held as a sequence of characters;
\* pos is 0-based and at most Len(s) (a larger pos throws std::out_of_range)
Substr2(s, pos) == SubSeq(s, pos + 1, Min(pos + 2, Len(s)))

\* strtoul(t, NULL, 16) of a text of at most two characters: the longest
\* prefix of hexadecimal digits, 0 when there is none
Strtoul16(t) ==
  IF Len(t) = 0 \/ HexVal(t[1]) < 0 THEN 0
  ELSE IF Len(t) = 1 \/ HexVal(t[2]) < 0 THEN HexVal(t[1])
  ELSE 16 * HexVal(t[1]) + HexVal(t[2])

\* string_utils_ns::to_string_right_hex_up(v, 2, '0')
Hex2(v) == <<HexChars[((v \div 16) % 16) + 1], HexChars[(v % 16) + 1]>>

\* string_utils_ns::to_string_right_hex_up(v, 4, '0')
Hex4(v) == Hex2(v \div 256) \o Hex2(v % 256)

\* the bytes of data as two hexadecimal digits each
HexOf(data) == [i \in 1..(2 * Len(data)) |-> Hex2(data[(i + 1) \div 2])[((i - 1) % 2) + 1]]

RECURSIVE SumRange(_, _, _)
SumRange(s, lo, hi) ==
  IF lo > hi THEN 0
  ELSE IF lo = hi THEN s[lo]
  ELSE LET mid == (lo + hi) \div 2 IN SumRange(s, lo, mid) + SumRange(s, mid + 1, hi)

SumSeq(s) == SumRange(s, 1, Len(s))

SetMin(S) == CHOOSE x \in S : \A y \in S : x <= y

\* a well-formed S1 line as the programs write it (without the line ending)
S1Line(addr, data) ==
  LET bc == Len(data) + SREC_ADDR_CHECKSUM_COUNT
      sum == (bc + (addr \div 256) + (addr % 256) + SumSeq(data)) % 256
  IN <<"S", "1">> \o Hex2(bc) \o Hex4(addr) \o HexOf(data) \o Hex2(255 - sum)

S0Line == <<"S","0","0","3","0","0","0","0","F","C">>
S9Line == <<"S","9","0","3","0","0","0","0","F","C">>
\* ------------------------------------------------------------------------
\* send_control_program: reading the talker file into the transmit buffer
\* ------------------------------------------------------------------------
\* srec_bytecount = (uint8_t)strtoul(line_str.substr(2, 2).c_str(), NULL, 16)
srec_bytecount(line) == Strtoul16(Substr2(line, 2)) % 256

\* the tests a line passes before its data bytes are taken
S1Accepted(line) ==
  /\ Len(line) > 8
  /\ SubSeq(line, 1, 2) = <<"S", "1">>
  /\ srec_bytecount(line) > 0
  /\ srec_bytecount(line) >= (Len(line) - 4) \div 2
  /\ srec_bytecount(line) > SREC_ADDR_CHECKSUM_COUNT

\* the test made one byte too late
TalkerTooBig_late(byte_index) == byte_index = BOOTLOADER_MAX_BYTE_COUNT + 1

\* the test made before every byte stored: is this the 257th byte?
TalkerTooBig(byte_index) == byte_index = BOOTLOADER_MAX_BYTE_COUNT

\* the for loop over the data bytes of one line, with byte_index = Len(buf):
\* it stops at the first pad_index at which it throws, TALKER_TOO_BIG being
\* tested before substr
LoadData(line, count, buf) ==
  LET throwing == {i \in 0..(count - 1) : TalkerTooBig(Len(buf) + i) \/ 2 * i + 8 > Len(line)}
      stop == IF throwing = {} THEN count ELSE SetMin(throwing)
      taken == [i \in 1..stop |-> Strtoul16(Substr2(line, 2 * (i - 1) + 8)) % 256]
  IN [buf |-> buf \o taken,
      err |-> IF stop = count THEN "none"
              ELSE IF TalkerTooBig(Len(buf) + stop) THEN "APP_ERROR_TALKER_TOO_BIG_ID"
              ELSE "std::out_of_range"]

LoadLine(line, st) ==
  IF st.err = "none" /\ S1Accepted(line)
    THEN LoadData(line, (srec_bytecount(line) - SREC_ADDR_CHECKSUM_COUNT) % 256, st.buf)
    ELSE st

\* the do/while loop over the lines of the file
RECURSIVE LoadLines(_, _)
LoadLines(lines, st) ==
  IF lines = <<>> THEN st ELSE LoadLines(Tail(lines), LoadLine(Head(lines), st))

\* the image padded with the erased-memory value instead
PadImage_ff(buf) ==
  buf \o [i \in 1..(BOOTLOADER_MAX_BYTE_COUNT - Len(buf)) |-> 255]

\* "If control program is small, pad with 0x00 bytes"
PadImage(buf) ==
  buf \o [i \in 1..(BOOTLOADER_MAX_BYTE_COUNT - Len(buf)) |-> 0]

\* the buffer handed to txrx_chunk_control_program, or the error raised
LoadTalker(lines) ==
  LET st == LoadLines(lines, [buf |-> <<>>, err |-> "none"])
  IN IF st.err = "none" THEN [buf |-> PadImage(st.buf), err |-> "none"] ELSE st

\* ------------------------------------------------------------------------
\* Talker files the model is run on
\* ------------------------------------------------------------------------
\* data lengths of the S1 lines: short lines, and the longest line an S1
\* record can hold (a byte count of 255), so that two lines reach 256 and 257
LineLens == {4, 5, 252}

\* k-th data byte of a generated file
DataByte(k) == (37 * k + 11) % 256

DataRun(first, n) == [i \in 1..n |-> DataByte(first + i - 1)]

\* the S1 lines for the data lengths lens; line j sits at address 0x0200 * j,
\* so the records are not contiguous in the address space
RECURSIVE S1Lines(_, _, _)
S1Lines(lens, j, first) ==
  IF lens = <<>> THEN <<>>
  ELSE <<S1Line((512 * j) % 65536, DataRun(first, Head(lens)))>>
         \o S1Lines(Tail(lens), j + 1, first + Head(lens))

\* header, a data-less S1 record, a truncated line, the data lines, terminator
TalkerFile(lens) ==
  <<S0Line, S1Line(0, <<>>), <<"S", "1", "0", "4">>>> \o S1Lines(lens, 1, 0) \o <<S9Line>>

LenSeqs == UNION {[1..n -> LineLens] : n \in 0..MaxLines}

\* the data bytes of a generated file, in file order
FileData(lens) == DataRun(0, SumSeq(lens))
\* ------------------------------------------------------------------------
\* State
\* ------------------------------------------------------------------------
VARIABLES
  prog,         \* which program runs: "Tru11" or "TBug11"
  params,       \* cl_my_params
  arg_v,        \* the command line parameters arg_v[1..], while they are parsed
  talker_file,  \* the talker file, named by the data lengths of its S1 lines (SpecLoad: its lines)
  in_file,      \* the lines of the S-record file named by file=, when it is read
  pc,           \* "start", "run" or "done"
  todo,         \* the calls the running operation still has to make
  call,         \* the frame of the transfer primitive being executed
  rxbuf,        \* receive buffer of the running primitive, -1 = never written
  wire,         \* every byte the transport accepted, in order
  log,          \* the transport calls and protocol steps made so far
  err,          \* the tru_exception that reached main, or its absence
  exit_code,    \* what main returned, -1 while running
  out_file,     \* the lines written to the file named by file=, in order
  srec,         \* readmem: the S1 record being built
  tally         \* the counters of a verification

vars ==
  <<prog, params, arg_v, talker_file, in_file, pc, todo, call, rxbuf, wire, log, err, exit_code,
    out_file, srec, tally>>

inputs == <<prog, params, arg_v, talker_file, in_file>>

\* what the file operations leave behind
results == <<out_file, srec, tally>>

Policies == {"TALKER_ECHO_IGNORE", "TALKER_ECHO_VERIFY_COM", "TALKER_ECHO_VERIFY"}

Primitives == {"tx_chunk", "rx_chunk", "txrx_chunk", "txrx_chunk_control_program", "txrx_chunk_write"}

Step(op, buf, len, echo, arg) == [op |-> op, buf |-> buf, len |-> len, echo |-> echo, arg |-> arg]

\* an entry of the log: a call of fn, a transport call made by fn at offset a
\* asking for b bytes and moving c, a return, a throw, ...
Ev(ev, fn, a, b, c) == [ev |-> ev, fn |-> fn, a |-> a, b |-> b, c |-> c, p |-> "none"]

\* the echo check fn made under policy on the b pairs from offset a: c is the
\* index of the first pair that failed, -1 if none did
Chk(fn, policy, a, b, c) == [ev |-> "check", fn |-> fn, a |-> a, b |-> b, c |-> c, p |-> policy]

NoCall ==
  [fn |-> "none", buf |-> <<>>, len |-> 0, echo |-> "TALKER_ECHO_IGNORE", is_prog |-> FALSE,
   remaining |-> 0, off |-> 0, chunklen |-> 0, at |-> "idle", rxremaining |-> 0, rxoff |-> 0,
   addr |-> 0]

NoError == [id |-> "none", args |-> <<>>]

\* the counts a report prints, -1 for a count it does not print
Report(matched, mismatched, ignored) ==
  [matched |-> matched, mismatched |-> mismatched, ignored |-> ignored]

\* match_tally, mismatch_tally, ignore_tally and total_databytes at 0, and
\* nothing reported yet
NoTally == [match |-> 0, mismatch |-> 0, ignore |-> 0, total |-> 0, report |-> Report(-1, -1, -1)]

\* the "Rx  :" line printed after the bytes of a line were compared
line_report(datacount, mismatch, ignore) ==
  IF mismatch # 0 /\ ignore # 0 THEN Report(-1, mismatch, ignore)
  ELSE IF mismatch # 0 THEN Report(-1, mismatch, -1)
  ELSE IF ignore = datacount THEN Report(-1, -1, ignore)
  ELSE IF ignore # 0 THEN Report(datacount, -1, ignore)
  ELSE Report(datacount, -1, -1)

\* the FAILED! or PASSED. line printed after the last line of the file
summary_report(t) ==
  IF t.mismatch # 0
    THEN Report(-1, t.mismatch, IF t.ignore # 0 THEN t.ignore ELSE -1)
    ELSE Report(t.total - t.ignore, -1, IF t.ignore # 0 THEN t.ignore ELSE -1)

\* the operations that print these reports
Reporting(op) ==
  op \in {"readmem_verify", "verify_data"} \/ (prog = "Tru11" /\ op \in {"writemem_file", "write_data"})

\* ------------------------------------------------------------------------
\* The pieces of the transfer primitives
\* ------------------------------------------------------------------------
\* a chunk one byte longer than the configured size
chunklen_long(remaining, size) == IF remaining > size THEN size + 1 ELSE remaining

\* chunklen = (remaining > size) ? size : remaining
chunklen(remaining, size) == IF remaining > size THEN size ELSE remaining

\* only a call that moved nothing is taken for a failure
xfer_failed_zero(xferredlen, len) == xferredlen = 0

\* if(xferredlen != chunklen) throw
xfer_failed(xferredlen, len) == xferredlen # len

\* verify_echo(txbuf_p + toff, rxbuf_p + roff, len): the index at which the
\* loop throws, -1 when it ends without throwing
verify_echo(tx, rx, toff, roff, len) ==
  LET bad == {i \in 0..(len - 1) : tx[toff + i + 1] # rx[roff + i + 1]}
  IN IF bad = {} THEN -1 ELSE SetMin(bad)

\* the complement forgotten
verify_echo_com_direct(tx, rx, toff, roff, len) == verify_echo(tx, rx, toff, roff, len)

\* verify_echo_com: as verify_echo, against the complement of the received byte
verify_echo_com(tx, rx, toff, roff, len) ==
  LET bad == {i \in 0..(len - 1) : tx[toff + i + 1] # Compl(rx[roff + i + 1])}
  IN IF bad = {} THEN -1 ELSE SetMin(bad)

\* the two values formatted into the APP_ERROR_ECHO_INFO_ID text
echo_info(tx, rx, toff, roff, i) == <<tx[toff + i + 1], rx[roff + i + 1]>>

echo_info_com(tx, rx, toff, roff, i) == <<tx[toff + i + 1], Compl(rx[roff + i + 1])>>

\* the switch on arg_echo_check (TBug11) / if(arg_verify_echo) (Tru11)
echo_check(policy, tx, rx, off, len) ==
  CASE policy = "TALKER_ECHO_VERIFY" -> verify_echo(tx, rx, off, off, len)
    [] policy = "TALKER_ECHO_VERIFY_COM" -> verify_echo_com(tx, rx, off, off, len)
    [] OTHER -> -1

echo_args(policy, tx, rx, off, i) ==
  IF policy = "TALKER_ECHO_VERIFY_COM"
    THEN echo_info_com(tx, rx, off, off, i) ELSE echo_info(tx, rx, off, off, i)

\* tru_exception::get_code() as main returns it
get_code(id) ==
  CASE id = "APP_ERROR_TX_FAIL_ID" -> 1
    [] id = "APP_ERROR_RX_FAIL_ID" -> 2
    [] id = "APP_ERROR_ECHO_ID" -> 3
    [] id = "APP_ERROR_TALKER_TOO_BIG_ID" -> 4
    [] OTHER -> 134

\* ------------------------------------------------------------------------
\* The serial transport: what one call may return
\* ------------------------------------------------------------------------
\* write_port(buf, len): all of it, one byte less, or nothing
WriteReturns(len) == {len, len - 1, 0}

\* read_port(buf, len): all of it, one byte less, or nothing (timeout)
ReadReturns(len) == {len, len - 1, 0}

\* the byte the device holds at address k and returns when it is read
DeviceByte(k) == (k * 29 + 5) % 256

\* is what the running primitive receives compared with what it sent
Verified(c) ==
  \/ c.fn = "txrx_chunk_control_program"
  \/ c.fn = "txrx_chunk" /\ c.echo # "TALKER_ECHO_IGNORE"

\* the byte a well-behaved device returns at offset k of the running call
GoodByte(c, k) ==
  CASE c.fn = "txrx_chunk" /\ c.echo = "TALKER_ECHO_VERIFY_COM" -> Compl(c.buf[k + 1])
    [] c.fn = "txrx_chunk" /\ c.echo = "TALKER_ECHO_VERIFY" -> c.buf[k + 1]
    [] c.fn \in {"txrx_chunk_control_program", "txrx_chunk_write"} -> c.buf[k + 1]
    [] OTHER -> DeviceByte((c.addr + k) % 65536)

\* what a device may return in place of g: g, a neighbour, the complement
AltByte(g, v) == CASE v = 0 -> g [] v = 1 -> (g + 1) % 256 [] OTHER -> Compl(g)

\* the offsets of the running call at which the device may misbehave: every
\* offset of a short chunk, the first and the last offset of a long one
FaultSpan(c) ==
  LET first == IF c.fn = "rx_chunk" THEN 0 ELSE c.off
      n == IF c.fn = "rx_chunk" THEN c.len ELSE c.chunklen
  IN IF ~Verified(c) /\ c.len > MaxLen THEN {}
     ELSE IF n <= MaxLen THEN first..(first + n - 1)
     ELSE {first, first + n - 1}

\* the alternatives tried at such an offset: all three in a short transfer,
\* the right byte and its complement in a long one
FaultKinds(c) == IF c.len <= MaxLen THEN 0..2 ELSE {0, 2}

\* the data of a read of len bytes stored at offset off, for a choice f of
\* faults (offset -> alternative)
RxData(c, off, len, f) ==
  [i \in 1..len |->
     IF (off + i - 1) \in DOMAIN f THEN AltByte(GoodByte(c, off + i - 1), f[off + i - 1])
     ELSE GoodByte(c, off + i - 1)]

\* rxbuf after data arrived at offset off
Store(rb, off, data) ==
  [i \in 1..Len(rb) |-> IF i > off /\ i <= off + Len(data) THEN data[i - off] ELSE rb[i]]
\* ------------------------------------------------------------------------
\* Control transfer shared by the actions
\* ------------------------------------------------------------------------
\* throw tru_exception(...): nothing between the throw and main catches it,
\* main prints the error and returns ex.get_code()
Throw(id, args, evs) ==
  /\ pc' = "done"
  /\ err' = [id |-> id, args |-> args]
  /\ exit_code' = get_code(id)
  /\ call' = NoCall
  /\ todo' = <<>>
  /\ log' = log \o evs \o <<Ev("throw", id, 0, 0, 0)>>

\* the primitive goes on with frame c
Go(c, evs) ==
  /\ call' = c
  /\ log' = log \o evs
  /\ UNCHANGED <<pc, err, exit_code, todo>>

\* the primitive returns to its caller
Complete(evs) == Go(NoCall, evs \o <<Ev("ret", call.fn, call.len, 0, 0)>>)

\* ------------------------------------------------------------------------
\* Entering a transfer primitive
\* ------------------------------------------------------------------------
Enter ==
  /\ pc = "run"
  /\ call.fn = "none"
  /\ todo # <<>>
  /\ Head(todo).op \in Primitives
  /\ LET s == Head(todo)
         c == [fn |-> s.op, buf |-> s.buf, len |-> s.len, echo |-> s.echo,
               is_prog |-> (s.arg = 1), remaining |-> s.len, off |-> 0, chunklen |-> 0,
               at |-> IF s.op = "rx_chunk" THEN "read" ELSE "write",
               rxremaining |-> IF s.op = "rx_chunk" THEN s.len ELSE 0, rxoff |-> 0,
               addr |-> s.arg]
         ev == Ev("call", s.op, s.len, 0, 0)
     IN /\ todo' = Tail(todo)
        /\ rxbuf' = [i \in 1..s.len |-> -1]
        /\ IF s.len = 0
             THEN /\ call' = NoCall
                  /\ log' = log \o <<ev, Ev("ret", s.op, 0, 0, 0)>>
             ELSE /\ call' = c
                  /\ log' = log \o <<ev>>
  /\ UNCHANGED <<inputs, pc, wire, err, exit_code, results>>

\* ------------------------------------------------------------------------
\* One write_port call and the code up to the next transport call
\* ------------------------------------------------------------------------
\* the chunk size the running primitive cuts its writes to
TxSize(c) ==
  IF c.fn = "txrx_chunk_write" /\ c.is_prog
    THEN params.serial_prog_txbuf_size ELSE params.serial_txbuf_size

\* tx_chunk after a complete write
AfterWrite_tx(cl, ev) ==
  IF call.remaining - cl = 0 THEN Complete(<<ev>>)
  ELSE Go([call EXCEPT !.remaining = @ - cl, !.off = @ + cl, !.chunklen = cl], <<ev>>)

\* the read-back left out: the next chunk is written at once
AfterWrite_txrx_noread(cl, ev) == AfterWrite_tx(cl, ev)

\* txrx_chunk after a complete write: rx_chunk(rxbuf_p, chunklen)
AfterWrite_txrx(cl, ev) ==
  Go([call EXCEPT !.chunklen = cl, !.at = "read", !.rxremaining = cl, !.rxoff = call.off], <<ev>>)

\* txrx_chunk_write after a complete write (remaining was reduced before it)
AfterWrite_write(cl, ev) ==
  Go([call EXCEPT !.remaining = @ - cl, !.chunklen = cl, !.at = "read",
                  !.rxremaining = cl, !.rxoff = call.off], <<ev>>)

\* txrx_chunk_control_program after a complete write
AfterWrite_control(cl, ev) ==
  LET rem == call.remaining - cl
      c == [call EXCEPT !.remaining = rem, !.chunklen = cl, !.rxoff = call.off]
  IN IF rem = 0 /\ cl = 1 THEN Go([c EXCEPT !.at = "read_last"], <<ev>>)
     ELSE IF rem = 0 THEN Go([c EXCEPT !.at = "read", !.rxremaining = cl - 1], <<ev>>)
     ELSE Go([c EXCEPT !.at = "read", !.rxremaining = cl], <<ev>>)

WritePort ==
  /\ pc = "run"
  /\ call.at = "write"
  /\ LET cl == chunklen(call.remaining, TxSize(call))
     IN \E ret \in WriteReturns(cl) :
          LET ev == Ev("write", call.fn, call.off, cl, ret)
          IN /\ wire' = wire \o SubSeq(call.buf, call.off + 1, call.off + ret)
             /\ IF xfer_failed(ret, cl)
                  THEN Throw("APP_ERROR_TX_FAIL_ID", <<cl, ret>>, <<ev>>)
                  ELSE CASE call.fn = "tx_chunk" -> AfterWrite_tx(cl, ev)
                         [] call.fn = "txrx_chunk" -> AfterWrite_txrx(cl, ev)
                         [] call.fn = "txrx_chunk_write" -> AfterWrite_write(cl, ev)
                         [] OTHER -> AfterWrite_control(cl, ev)
  /\ UNCHANGED <<inputs, rxbuf, results>>

\* ------------------------------------------------------------------------
\* One read_port call made by rx_chunk and the code up to the next call
\* ------------------------------------------------------------------------
\* the tolerance of the control program applied to txrx_chunk: a failed check
\* of the last chunk is let through
AfterRead_txrx_tolerant(rb, ev) ==
  LET m == echo_check(call.echo, call.buf, rb, call.off, call.chunklen)
      cev == Chk(call.fn, call.echo, call.off, call.chunklen, m)
  IN IF call.remaining - call.chunklen = 0 THEN Complete(<<ev, cev>>)
     ELSE IF m >= 0
       THEN Throw("APP_ERROR_ECHO_ID", echo_args(call.echo, call.buf, rb, call.off, m), <<ev, cev>>)
     ELSE Go([call EXCEPT !.remaining = @ - call.chunklen, !.off = @ + call.chunklen,
                          !.at = "write"], <<ev, cev>>)

\* txrx_chunk once rx_chunk has returned: the echo check, then the next chunk
AfterRead_txrx(rb, ev) ==
  LET m == echo_check(call.echo, call.buf, rb, call.off, call.chunklen)
      cev == Chk(call.fn, call.echo, call.off, call.chunklen, m)
  IN IF m >= 0
       THEN Throw("APP_ERROR_ECHO_ID", echo_args(call.echo, call.buf, rb, call.off, m), <<ev, cev>>)
     ELSE IF call.remaining - call.chunklen = 0 THEN Complete(<<ev, cev>>)
     ELSE Go([call EXCEPT !.remaining = @ - call.chunklen, !.off = @ + call.chunklen,
                          !.at = "write"], <<ev, cev>>)

\* txrx_chunk_write once rx_chunk has returned: no check at all
AfterRead_write(rb, ev) ==
  IF call.remaining = 0 THEN Complete(<<ev>>)
  ELSE Go([call EXCEPT !.off = @ + call.chunklen, !.at = "write"], <<ev>>)

\* the result of the check of the echoes dropped
AfterRead_control_unchecked(rb, ev) ==
  LET n == IF call.remaining = 0 THEN call.chunklen - 1 ELSE call.chunklen
      m == verify_echo(call.buf, rb, call.off, call.off, n)
      cev == Chk(call.fn, "TALKER_ECHO_VERIFY", call.off, n, m)
  IN IF call.remaining = 0
       THEN Go([call EXCEPT !.at = "read_last", !.rxoff = call.off + call.chunklen - 1], <<ev, cev>>)
     ELSE Go([call EXCEPT !.off = @ + call.chunklen, !.at = "write"], <<ev, cev>>)

\* txrx_chunk_control_program once rx_chunk has returned
AfterRead_control(rb, ev) ==
  LET n == IF call.remaining = 0 THEN call.chunklen - 1 ELSE call.chunklen
      m == verify_echo(call.buf, rb, call.off, call.off, n)
      cev == Chk(call.fn, "TALKER_ECHO_VERIFY", call.off, n, m)
  IN IF m >= 0
       THEN Throw("APP_ERROR_ECHO_ID", echo_info(call.buf, rb, call.off, call.off, m), <<ev, cev>>)
     ELSE IF call.remaining = 0
       THEN Go([call EXCEPT !.at = "read_last", !.rxoff = call.off + call.chunklen - 1], <<ev, cev>>)
     ELSE Go([call EXCEPT !.off = @ + call.chunklen, !.at = "write"], <<ev, cev>>)

ReadPort ==
  /\ pc = "run"
  /\ call.at = "read"
  /\ LET rl == chunklen(call.rxremaining, params.serial_rxbuf_size)
     IN \E ret \in ReadReturns(rl) :
        \E f \in (IF ret = rl
                    THEN [FaultSpan(call) \cap (call.rxoff..(call.rxoff + rl - 1)) -> FaultKinds(call)]
                    ELSE {<<>>}) :
          LET data == RxData(call, call.rxoff, ret, f)
              rb == Store(rxbuf, call.rxoff, data)
              ev == Ev("read", call.fn, call.rxoff, rl, ret)
          IN /\ rxbuf' = rb
             /\ IF xfer_failed(ret, rl)
                  THEN Throw("APP_ERROR_RX_FAIL_ID", <<rl, ret>>, <<ev>>)
                ELSE IF call.rxremaining - rl > 0
                  THEN Go([call EXCEPT !.rxremaining = @ - rl, !.rxoff = @ + rl], <<ev>>)
                ELSE CASE call.fn = "rx_chunk" -> Complete(<<ev>>)
                       [] call.fn = "txrx_chunk" -> AfterRead_txrx(rb, ev)
                       [] call.fn = "txrx_chunk_write" -> AfterRead_write(rb, ev)
                       [] OTHER -> AfterRead_control(rb, ev)
  /\ UNCHANGED <<inputs, wire, results>>

\* ------------------------------------------------------------------------
\* The last byte of the control program: read_port and verify_echo inside
\* try { } catch(tru_exception &)
\* ------------------------------------------------------------------------
\* no handler around the last byte
catch_last_none(m) == FALSE

\* is the exception thrown inside the try block caught
catch_last(m) == TRUE

ReadPortLast ==
  /\ pc = "run"
  /\ call.at = "read_last"
  /\ \E ret \in ReadReturns(1) : \E v \in FaultKinds(call) :
       \* the echo that arrived; a byte that did not arrive leaves the cell of
       \* the malloc'ed buffer as it was, equal to the byte compared or not
       LET b == IF ret = 1 THEN AltByte(call.buf[call.rxoff + 1], v)
                ELSE AltByte(call.buf[call.off + 1], v)
           rb == Store(rxbuf, call.rxoff, <<b>>)
           m == verify_echo(call.buf, rb, call.off, call.rxoff, 1)
           ev == Ev("read", call.fn, call.rxoff, 1, ret)
           cev == Chk(call.fn, "TALKER_ECHO_VERIFY", call.rxoff, 1, m)
       IN /\ rxbuf' = rb
          /\ IF m >= 0 /\ ~catch_last(m)
               THEN Throw("APP_ERROR_ECHO_ID", echo_info(call.buf, rb, call.off, call.rxoff, m), <<ev, cev>>)
             ELSE IF m >= 0
               THEN Complete(<<ev, cev, Ev("swallow", "APP_ERROR_ECHO_ID", call.rxoff, 0, 0)>>)
             ELSE Complete(<<ev, cev>>)
  /\ UNCHANGED <<inputs, wire, results>>
\* ------------------------------------------------------------------------
\* process_cmd_line and the operations it starts
\* ------------------------------------------------------------------------
\* mutant of writemem_byte: the echo of the value is not looked at
writemem_byte_unverified(addr, value) ==
  << Step("txrx_chunk", <<TBUG11_TALKER_WRITE_CMD>>, 1, "TALKER_ECHO_VERIFY_COM", 0),
     Step("tx_chunk", <<1, (addr \div 256) % 256, addr % 256>>, 3, "TALKER_ECHO_IGNORE", 0),
     Step("txrx_chunk", <<value>>, 1, "TALKER_ECHO_IGNORE", 0) >>

\* writemem_byte (TBug11): command, parameters, value
writemem_byte(addr, value) ==
  << Step("txrx_chunk", <<TBUG11_TALKER_WRITE_CMD>>, 1, "TALKER_ECHO_VERIFY_COM", 0),
     Step("tx_chunk", <<1, (addr \div 256) % 256, addr % 256>>, 3, "TALKER_ECHO_IGNORE", 0),
     Step("txrx_chunk", <<value>>, 1, "TALKER_ECHO_VERIFY", 0) >>

\* test_mode (TBug11): write HPRIO with 0x66
test_mode == writemem_byte(HPRIO_ADDR, HPRIO_TEST_MODE)

\* bprot_off (TBug11): write BPROT with 0x00
bprot_off == writemem_byte(BPROT_ADDR, 0)

\* mutant of bprot_on: the register is written with 0x00 again
bprot_on_open == writemem_byte(BPROT_ADDR, 0)

\* bprot_on (TBug11): write BPROT with 0x1f
bprot_on == writemem_byte(BPROT_ADDR, BPROT_ON)

set_params(baud) == Step("set_params", <<>>, 0, "TALKER_ECHO_IGNORE", baud)

sleep(ms) == Step("sleep", <<>>, 0, "TALKER_ECHO_IGNORE", ms)

\* the link set to the talker's rate before the image is sent
uptalker_early_baud ==
  << set_params(IF params.use_fast THEN BAUD_BOOT_FAST ELSE BAUD_BOOT_SLOW),
     set_params(BAUD_TALKER),
     Step("send_control_program", <<>>, 0, "TALKER_ECHO_IGNORE", 0) >>
  \o (IF prog = "Tru11" THEN <<sleep(SETTLE_DELAY_MS)>> ELSE <<>>)
  \o (IF prog = "TBug11" THEN test_mode ELSE <<>>)

\* case CMD_UPTALKER of either program
uptalker ==
  << set_params(IF params.use_fast THEN BAUD_BOOT_FAST ELSE BAUD_BOOT_SLOW),
     Step("send_control_program", <<>>, 0, "TALKER_ECHO_IGNORE", 0) >>
  \o (IF prog = "Tru11" THEN <<sleep(SETTLE_DELAY_MS)>> ELSE <<>>)
  \o <<set_params(BAUD_TALKER)>>
  \o (IF prog = "TBug11" THEN test_mode ELSE <<>>)

\* the reply to the command byte is not looked at
cmd_echo_ignore == "TALKER_ECHO_IGNORE"

\* the echo policy of a command byte: TBug11 expects the complement, Tru11
\* passes arg_verify_echo = true
cmd_echo == IF prog = "TBug11" THEN "TALKER_ECHO_VERIFY_COM" ELSE "TALKER_ECHO_VERIFY"

\* the address sent before the length
cmd_frame_addr_first(cmd, len, addr) ==
  << Step("txrx_chunk", <<cmd>>, 1, cmd_echo, 0),
     Step("tx_chunk", <<(addr \div 256) % 256, addr % 256, len % 256>>, 3, "TALKER_ECHO_IGNORE", 0) >>

\* "Transmit command" and "Transmit parameters" of a memory command
cmd_frame(cmd, len, addr) ==
  << Step("txrx_chunk", <<cmd>>, 1, cmd_echo, 0),
     Step("tx_chunk", <<len % 256, (addr \div 256) % 256, addr % 256>>, 3, "TALKER_ECHO_IGNORE", 0) >>

\* the contents of txbuf_p[0..len-1] after the parameters were stored in a
\* buffer whose other cells hold junk
txbuf_after_params(len, addr, junk) ==
  [i \in 1..len |-> IF i = 1 THEN len % 256
                    ELSE IF i = 2 THEN (addr \div 256) % 256
                    ELSE IF i = 3 THEN addr % 256 ELSE junk]

\* readmem: one protocol read of len bytes at addr
read_frame(len, addr, junk) ==
  cmd_frame(TALKER_READ_CMD, len, addr)
  \o (IF prog = "TBug11"
        THEN <<Step("txrx_chunk", txbuf_after_params(len, addr, junk), len, "TALKER_ECHO_IGNORE", addr)>>
        ELSE <<Step("rx_chunk", <<>>, len, "TALKER_ECHO_IGNORE", addr)>>)

\* arg_params->data after "0" was put in front of an odd number of digits
hex_data == IF Len(params.data) % 2 = 1 THEN <<"0">> \o params.data ELSE params.data

\* writemem_hexstr: the payload of the write of len bytes at addr
hex_payload(len, addr) ==
  [i \in 1..len |->
     Strtoul16(Substr2(hex_data, 2 * ((addr - params.from_addr) + (i - 1)))) % 256]

\* writemem_hexstr: one protocol write of len bytes at addr under the
\* command code; Tru11 passes arg_is_prog = false whatever the code
write_frame(code, len, addr) ==
  IF prog = "TBug11"
    THEN cmd_frame(code, len, addr)
           \o <<Step("txrx_chunk", hex_payload(len, addr), len, "TALKER_ECHO_VERIFY", 0)>>
    ELSE cmd_frame(code, len, addr)
           \o <<Step("txrx_chunk_write", hex_payload(len, addr), len, "TALKER_ECHO_IGNORE", 0)>>

\* mutant of region_len: the last address is left out
region_len_excl(from, to) == to - from

\* remaining = arg_params->to_addr - arg_params->from_addr + 1 in uint32_t,
\* for addresses below 2^31; a result of 2^31 or more is held as the signed
\* integer with the same 32 bits (the result minus 2^32)
region_len(from, to) == to - from + 1

\* a > b for two uint32_t held that way
u32_gt(a, b) == IF (a < 0) = (b < 0) THEN a > b ELSE a < 0

\* the lines standard input gives the confirmation prompt, as fgets stores
\* them; <<>> is the end of input, where fgets returns NULL
Answers == {<<>>, <<"\n">>, <<"y", "\n">>, <<"y", "e", "s", "\n">>, <<"n", "\n">>, <<"Y", "\n">>}

\* mutant of prog_prompt_write: any line read confirms
prog_prompt_write_any(answer) == answer # <<>>

\* prog_prompt_write after the prompt is printed: fgets(buf, sizeof(buf),
\* stdin) != NULL and buf[0] == 'y'
prog_prompt_write(answer) == answer # <<>> /\ answer[1] = "y"

\* the values junk memory of a freshly allocated buffer is given
JunkBytes == {0, 165}

\* the switch on arg_params->cmd, after open_handle, set_timeout and purge
ProcessCmdLine ==
  /\ pc = "start"
  /\ pc' = "run"
  /\ \E junk \in JunkBytes :
       todo' = CASE params.cmd = "CMD_UPTALKER" -> uptalker
                 [] params.cmd = "CMD_READ" ->
                      << set_params(BAUD_TALKER),
                         Step("readmem", <<junk>>, region_len(params.from_addr, params.to_addr),
                              "TALKER_ECHO_IGNORE", params.from_addr % 65536) >>
                 [] params.cmd = "CMD_WRITEHEXSTR" ->
                      << set_params(BAUD_TALKER),
                         Step("writemem_hexstr",
                              <<IF prog = "TBug11" THEN TBUG11_TALKER_WRITE_CMD
                                ELSE TRU11_TALKER_WRITE_CMD>>,
                              Len(hex_data) \div 2, "TALKER_ECHO_IGNORE",
                              params.from_addr % 65536) >>
                 [] prog = "Tru11" /\ params.cmd = "CMD_WRITE_EE_HEXSTR" /\ prog_prompt_write(params.answer) ->
                      << set_params(BAUD_TALKER),
                         Step("writemem_hexstr", <<TALKER_WRITE_EE_CMD>>,
                              Len(hex_data) \div 2, "TALKER_ECHO_IGNORE",
                              params.from_addr % 65536) >>
                 [] params.cmd = "CMD_READ_VERIFY" ->
                      << set_params(BAUD_TALKER),
                         Step("readmem_verify", <<junk>>, 1, "TALKER_ECHO_IGNORE", 0) >>
                 [] params.cmd = "CMD_WRITE" ->
                      << set_params(BAUD_TALKER),
                         Step("writemem_file", <<junk>>, 1, "TALKER_ECHO_IGNORE",
                              TRU11_TALKER_WRITE_CMD) >>
                      \o (IF prog = "TBug11" THEN bprot_on ELSE <<>>)
                 [] params.cmd = "CMD_WRITE_EE" /\ prog_prompt_write(params.answer) ->
                      << set_params(BAUD_TALKER),
                         Step("writemem_file", <<junk>>, 1, "TALKER_ECHO_IGNORE",
                              TALKER_WRITE_EE_CMD) >>
                 [] prog = "Tru11" /\ params.cmd = "CMD_WRITE_E" /\ prog_prompt_write(params.answer) ->
                      << set_params(BAUD_TALKER),
                         Step("writemem_file", <<junk>>, 1, "TALKER_ECHO_IGNORE",
                              TALKER_WRITE_E_CMD) >>
                 [] prog = "Tru11" /\ params.cmd = "CMD_WRITE_E20" /\ prog_prompt_write(params.answer) ->
                      << set_params(BAUD_TALKER),
                         Step("writemem_file", <<junk>>, 1, "TALKER_ECHO_IGNORE",
                              TALKER_WRITE_E20_CMD) >>
                 [] params.cmd = "CMD_WRITE_EEPROM" /\ prog_prompt_write(params.answer) ->
                      <<set_params(BAUD_TALKER)>> \o bprot_off
                        \o <<Step("write_ee", <<junk>>, 1, "TALKER_ECHO_IGNORE", 0)>>
                        \o bprot_on
                 [] params.cmd = "CMD_WRITE_EPROM" /\ prog_prompt_write(params.answer) ->
                      << set_params(BAUD_TALKER),
                         Step("write_e", <<junk>>, 1, "TALKER_ECHO_IGNORE", 0) >>
                 [] params.cmd = "CMD_WRITE_EPROM_E20" /\ prog_prompt_write(params.answer) ->
                      << set_params(BAUD_TALKER),
                         Step("write_e20", <<junk>>, 1, "TALKER_ECHO_IGNORE", 0) >>
                 [] OTHER -> <<>>
  /\ UNCHANGED <<inputs, call, rxbuf, wire, log, err, exit_code, results>>

\* string_utils_ns::to_string_right_hex_up(v, width, '0') for the widths the
\* programs pass, 2 and 4, and a value that fits
to_string_right_hex_up(v, width) == IF width = 2 THEN Hex2(v) ELSE Hex4(v)

\* mutant of readmem_bytecount: the address and checksum bytes are not counted
readmem_bytecount_data == params.srec_datalen % 256

\* uint8_t srec_bytecount = SREC_ADDR_CHECKSUM_COUNT + arg_params->srec_datalen
readmem_bytecount == (SREC_ADDR_CHECKSUM_COUNT + params.srec_datalen) % 256

\* checksum = 0; checksum += (a >> 8) & 0xff; checksum += a & 0xff
addr_checksum(a) == (((a \div 256) % 256) + (a % 256)) % 256

\* readmem before its loop: datacount, checksum, srec_line, srec_addr_str
srec_start(a) ==
  [datacount |-> 0, checksum |-> addr_checksum(a), srec_line |-> <<>>,
   srec_addr_str |-> to_string_right_hex_up(a % 65536, 4)]

\* the record being built together with the lines written so far
srec_with(st, lines) ==
  [datacount |-> st.datacount, checksum |-> st.checksum, srec_line |-> st.srec_line,
   srec_addr_str |-> st.srec_addr_str, lines |-> lines]

\* the checksum left as the sum, not complemented
srec_record_sum(st) ==
  LET checksum == (st.checksum + st.datacount + SREC_ADDR_CHECKSUM_COUNT) % 256
  IN <<"S", "1">>
       \o to_string_right_hex_up(st.datacount + SREC_ADDR_CHECKSUM_COUNT, 2)
       \o st.srec_addr_str \o st.srec_line
       \o to_string_right_hex_up(checksum, 2)

\* "Create S1 record: S1 + length + checksum", without the line ending
srec_record(st) ==
  LET checksum == Compl((st.checksum + st.datacount + SREC_ADDR_CHECKSUM_COUNT) % 256)
  IN <<"S", "1">>
       \o to_string_right_hex_up(st.datacount + SREC_ADDR_CHECKSUM_COUNT, 2)
       \o st.srec_addr_str \o st.srec_line
       \o to_string_right_hex_up(checksum, 2)

\* mutant of readmem_byte: the next record starts at the address of the byte
\* that completed this one
readmem_byte_same(st, b, addr) ==
  LET a == [st EXCEPT !.srec_line = @ \o to_string_right_hex_up(b, 2),
                      !.datacount = (@ + 1) % 256,
                      !.checksum = (@ + b) % 256]
  IN IF a.datacount = readmem_bytecount - SREC_ADDR_CHECKSUM_COUNT
       THEN [datacount |-> 0, checksum |-> addr_checksum(addr), srec_line |-> <<>>,
             srec_addr_str |-> to_string_right_hex_up(addr % 65536, 4),
             lines |-> Append(a.lines, srec_record(a))]
       ELSE a

\* the body of the for loop over the bytes received, for the byte b read
\* at addr; st holds the record being built and the lines written so far
readmem_byte(st, b, addr) ==
  LET a == [st EXCEPT !.srec_line = @ \o to_string_right_hex_up(b, 2),
                      !.datacount = (@ + 1) % 256,
                      !.checksum = (@ + b) % 256]
  IN IF a.datacount = readmem_bytecount - SREC_ADDR_CHECKSUM_COUNT
       THEN [datacount |-> 0, checksum |-> addr_checksum(addr + 1), srec_line |-> <<>>,
             srec_addr_str |-> to_string_right_hex_up((addr + 1) % 65536, 4),
             lines |-> Append(a.lines, srec_record(a))]
       ELSE a

\* the for loop over bytes lo..hi of the chunk data, read at addr and onwards
RECURSIVE readmem_bytes(_, _, _, _, _)
readmem_bytes(st, data, addr, lo, hi) ==
  IF lo > hi THEN st
  ELSE IF lo = hi THEN readmem_byte(st, data[lo], (addr + lo - 1) % 65536)
  ELSE LET mid == (lo + hi) \div 2
           half == readmem_bytes(st, data, addr, lo, mid)
       IN IF half.datacount >= 0 THEN readmem_bytes(half, data, addr, mid + 1, hi) ELSE half

\* "Do we have remaining bytes?" and the S9 record
readmem_finish(st) ==
  (IF st.datacount > 0 THEN Append(st.lines, srec_record(st)) ELSE st.lines) \o <<S9Line>>

\* readmem up to its loop: the S0 record is written, the first record begun
Readmem ==
  /\ pc = "run"
  /\ call.fn = "none"
  /\ todo # <<>>
  /\ Head(todo).op = "readmem"
  /\ todo' = <<[Head(todo) EXCEPT !.op = "readmem_loop"]>> \o Tail(todo)
  /\ out_file' = <<S0Line>>
  /\ srec' = srec_start(params.from_addr)
  /\ UNCHANGED <<inputs, pc, call, rxbuf, wire, log, err, exit_code, tally>>

\* readmem: the head of its loop over the region, len = remaining, arg = addr;
\* after the loop the record left over and the S9 record are written
ReadmemLoop ==
  /\ pc = "run"
  /\ call.fn = "none"
  /\ todo # <<>>
  /\ Head(todo).op = "readmem_loop"
  /\ LET s == Head(todo)
         cl == IF u32_gt(s.len, TALKER_MAX_BYTE_COUNT) THEN TALKER_MAX_BYTE_COUNT ELSE s.len
         whole == region_len(params.from_addr, params.to_addr)
     IN IF u32_gt(whole, 65536) /\ whole - s.len >= MaxReads * TALKER_MAX_BYTE_COUNT
          THEN FALSE
        ELSE IF s.len = 0
          THEN /\ todo' = Tail(todo)
               /\ out_file' = readmem_finish(srec_with(srec, out_file))
               /\ log' = Append(log, Ev("done", "readmem", 0, 0, 0))
          ELSE /\ todo' = read_frame(cl, s.arg, s.buf[1])
                           \o <<Step("readmem_data", <<>>, cl, "TALKER_ECHO_IGNORE", s.arg),
                                [s EXCEPT !.len = @ - cl, !.arg = (@ + cl) % 65536]>>
                           \o Tail(todo)
               /\ log' = Append(log, Ev("command", "readmem", s.arg, cl, s.len))
               /\ UNCHANGED out_file
  /\ UNCHANGED <<inputs, pc, call, rxbuf, wire, err, exit_code, srec, tally>>

\* readmem: the for loop over the chunk received, len bytes read at arg
ReadmemData ==
  /\ pc = "run"
  /\ call.fn = "none"
  /\ todo # <<>>
  /\ Head(todo).op = "readmem_data"
  /\ LET s == Head(todo)
         st == readmem_bytes(srec_with(srec, out_file), rxbuf, s.arg, 1, s.len)
     IN /\ srec' = [f \in DOMAIN srec |-> st[f]]
        /\ out_file' = st.lines
  /\ todo' = Tail(todo)
  /\ UNCHANGED <<inputs, pc, call, rxbuf, wire, log, err, exit_code, tally>>

\* the turns of the loop of writemem_hexstr that moved no byte
EmptyTurns ==
  SelectSeq(log, LAMBDA e : e.ev = "command" /\ e.fn = "writemem_hexstr" /\ e.b = 0)

\* writemem_hexstr: the head of its loop, len = remaining, arg = addr;
\* chunklen is a uint8_t
WritememHexstr ==
  /\ pc = "run"
  /\ call.fn = "none"
  /\ todo # <<>>
  /\ Head(todo).op = "writemem_hexstr"
  /\ LET s == Head(todo)
         cl == (IF s.len > TALKER_MAX_BYTE_COUNT THEN TALKER_MAX_BYTE_COUNT ELSE s.len) % 256
     IN /\ (s.len > 0 /\ cl = 0) => Len(EmptyTurns) < MaxTurns
        /\ todo' = IF s.len = 0 THEN Tail(todo)
                   ELSE write_frame(s.buf[1], cl, s.arg)
                          \o <<[s EXCEPT !.len = @ - cl, !.arg = (@ + cl) % 65536]>>
                          \o Tail(todo)
        /\ log' = IF s.len = 0 THEN log
                  ELSE Append(log, Ev("command", "writemem_hexstr", s.arg, cl, s.len))
  /\ UNCHANGED <<inputs, pc, call, rxbuf, wire, err, exit_code, results>>

\* ------------------------------------------------------------------------
\* The operations driven by the lines of an S-record file
\* ------------------------------------------------------------------------
\* std::string::substr(pos, n) for a pos that is at most Len(s)
Substr(s, pos, n) == SubSeq(s, pos + 1, Min(pos + n, Len(s)))

\* strtoul(t, NULL, 16): the value of the longest prefix of hexadecimal digits
RECURSIVE Strtoul(_, _)
Strtoul(t, acc) ==
  IF t = <<>> \/ HexVal(Head(t)) < 0 THEN acc
  ELSE Strtoul(Tail(t), 16 * acc + HexVal(Head(t)))

\* a line of any length that starts with S1 is taken
line_accepted_any(line_str) == Substr(line_str, 0, 2) = <<"S", "1">>

\* if(line_str.size() >= 8) and if(srec_type == "S1")
line_accepted(line_str) ==
  /\ Len(line_str) >= 8
  /\ Substr(line_str, 0, 2) = <<"S", "1">>

\* uint8_t srec_datacount = (uint8_t)strtoul(substr(2, 2)) - SREC_ADDR_CHECKSUM_COUNT
srec_datacount(line_str) ==
  ((Strtoul(Substr(line_str, 2, 2), 0) % 256) - SREC_ADDR_CHECKSUM_COUNT) % 256

\* srec_addr = (uint16_t)strtoul(line_str.substr(4, 4).c_str(), NULL, 16)
srec_addr(line_str) == Strtoul(Substr(line_str, 4, 4), 0) % 65536

\* mutant of file_byte: the data is taken to begin one pair of digits early
file_byte_early(line_str, i) == Strtoul(Substr(line_str, 2 * i + 6, 2), 0) % 256

\* (uint8_t)strtoul(line_str.substr(2 * i + 8, 2).c_str(), NULL, 16)
file_byte(line_str, i) == Strtoul(Substr(line_str, 2 * i + 8, 2), 0) % 256

\* line_str.substr(2 * i + 8, 2) throws std::out_of_range
substr_throws(line_str, i) == 2 * i + 8 > Len(line_str)

\* the first i below count at which the data byte cannot be taken, count if
\* there is none
first_throw(line_str, count) ==
  LET T == {i \in 0..(count - 1) : substr_throws(line_str, i)}
  IN IF T = {} THEN count ELSE SetMin(T)

\* std::out_of_range leaves the function: no handler, std::terminate
terminate == Step("terminate", <<>>, 0, "TALKER_ECHO_IGNORE", 0)

RECURSIVE Concat(_, _, _)
Concat(seqs, lo, hi) ==
  IF lo > hi THEN <<>>
  ELSE IF lo = hi THEN seqs[lo]
  ELSE LET mid == (lo + hi) \div 2 IN Concat(seqs, lo, mid) \o Concat(seqs, mid + 1, hi)

\* readmem_verify: the calls made for an accepted line
verify_line(line_str, junk) ==
  read_frame(srec_datacount(line_str), srec_addr(line_str), junk)
  \o <<Step("verify_data", line_str, srec_datacount(line_str), "TALKER_ECHO_IGNORE",
            srec_addr(line_str))>>

\* writemem_file (Tru11): the buffer filled from the data of the line
file_payload(line_str) ==
  [i \in 1..srec_datacount(line_str) |-> file_byte(line_str, i - 1)]

\* writemem_file: the calls made for an accepted line. Tru11 fills the
\* buffer from the line after the parameters were sent; TBug11 transmits the
\* buffer as the parameters left it
write_line(line_str, code, junk) ==
  LET count == srec_datacount(line_str)
      addr == srec_addr(line_str)
  IN IF prog = "TBug11"
       THEN cmd_frame(TBUG11_TALKER_WRITE_CMD, count, addr)
              \o <<Step("txrx_chunk", txbuf_after_params(count, addr, junk), count,
                        "TALKER_ECHO_VERIFY", 0)>>
     ELSE IF first_throw(line_str, count) < count
       THEN cmd_frame(code, count, addr) \o <<terminate>>
     ELSE cmd_frame(code, count, addr)
            \o <<Step("txrx_chunk_write", file_payload(line_str), count, "TALKER_ECHO_IGNORE",
                      IF code # TRU11_TALKER_WRITE_CMD THEN 1 ELSE 0),
                 Step("write_data", file_payload(line_str), count, "TALKER_ECHO_IGNORE", addr)>>

\* mutant of prog_byte: the register is left at the programming value
prog_byte_held(reg, latch, address, byte) ==
  writemem_byte(reg, latch) \o writemem_byte(address, byte)
    \o writemem_byte(reg, latch + 1) \o writemem_byte(reg, latch + 1)

\* the four writes every erase and program function makes: latch, store,
\* apply the voltage, release, through the register reg
\* (TALKER_ERASE_PROG_DELAY is 0, the delay before the release is compiled out)
prog_byte(reg, latch, address, byte) ==
  writemem_byte(reg, latch) \o writemem_byte(address, byte)
    \o writemem_byte(reg, latch + 1) \o writemem_byte(reg, 0)

eeprom_prog_byte(address, byte) == prog_byte(PPROG_ADDR, EE_LATCH, address, byte)

eeprom_bulk_erase(address, byte) == prog_byte(PPROG_ADDR, EE_BULK_ERASE, address, byte)

eeprom_row_erase(address, byte) == prog_byte(PPROG_ADDR, EE_ROW_ERASE, address, byte)

eeprom_byte_erase(address, byte) == prog_byte(PPROG_ADDR, EE_BYTE_ERASE, address, byte)

eprom_prog_byte(address, byte) == prog_byte(PPROG_ADDR, E_LATCH, address, byte)

\* mutant of eprom_prog_e20_byte: the release goes to the standard register
eprom_prog_e20_byte_pprog(address, byte) ==
  writemem_byte(EPROG_ADDR, E_LATCH) \o writemem_byte(address, byte)
    \o writemem_byte(EPROG_ADDR, E_LATCH + 1) \o writemem_byte(PPROG_ADDR, 0)

eprom_prog_e20_byte(address, byte) == prog_byte(EPROG_ADDR, E_LATCH, address, byte)

\* mutant of eeprom_erase: the CONFIG register is erased like any byte
eeprom_erase_byte(address, byte) == eeprom_byte_erase(address, byte)

\* the erase of write_ee: eeprom_bulk_erase at the CONFIG register,
\* eeprom_byte_erase elsewhere
eeprom_erase(address, byte) ==
  IF address = HC11_CONFIG_ADDR
    THEN eeprom_bulk_erase(address, byte)
    ELSE eeprom_byte_erase(address, byte)

\* the body of the loop over the data bytes of write_ee, write_e, write_e20
bulk_byte(op, address, byte) ==
  CASE op = "write_ee" -> eeprom_erase(address, byte) \o eeprom_prog_byte(address, byte)
    [] op = "write_e" -> eprom_prog_byte(address, byte)
    [] OTHER -> eprom_prog_e20_byte(address, byte)

\* write_ee, write_e, write_e20: the calls made for an accepted line
bulk_line(op, line_str) ==
  LET count == srec_datacount(line_str)
      stop == first_throw(line_str, count)
      bytes == [i \in 1..stop |->
                  bulk_byte(op, (srec_addr(line_str) + i - 1) % 65536, file_byte(line_str, i - 1))]
  IN Concat(bytes, 1, stop) \o (IF stop < count THEN <<terminate>> ELSE <<>>)

FileOps == {"readmem_verify", "writemem_file", "write_ee", "write_e", "write_e20"}

line_steps(op, line_str, code, junk) ==
  CASE op = "readmem_verify" -> verify_line(line_str, junk)
    [] op = "writemem_file" -> write_line(line_str, code, junk)
    [] OTHER -> bulk_line(op, line_str)

\* mutant of verdict: the mismatch count is not looked at
verdict_passed(t) == "PASSED"

\* the verdict printed after the last line
verdict(t) == IF t.mismatch > 0 THEN "FAILED" ELSE "PASSED"

\* the do/while loop over the lines of the file: len = number of the line
\* read next, arg = the write command code, buf = the junk of the buffers
FileLoop ==
  /\ pc = "run"
  /\ call.fn = "none"
  /\ todo # <<>>
  /\ Head(todo).op \in FileOps
  /\ LET s == Head(todo)
         next == [s EXCEPT !.len = @ + 1]
     IN IF s.len > Len(in_file)
          THEN /\ todo' = Tail(todo)
               /\ log' = Append(log, Ev("summary", s.op, tally.total, tally.mismatch, tally.ignore))
               /\ tally' = IF Reporting(s.op)
                             THEN [tally EXCEPT !.report = summary_report(tally)] ELSE tally
        ELSE IF ~line_accepted(in_file[s.len])
          THEN /\ todo' = <<next>> \o Tail(todo)
               /\ log' = Append(log, Ev("skip", s.op, s.len, 0, 0))
               /\ UNCHANGED tally
        ELSE LET line_str == in_file[s.len]
             IN /\ todo' = line_steps(s.op, line_str, s.arg, s.buf[1]) \o <<next>> \o Tail(todo)
                /\ log' = Append(log, Ev("line", s.op, srec_addr(line_str),
                                        srec_datacount(line_str), s.len))
                /\ tally' = IF s.op = "readmem_verify" /\ prog = "TBug11"
                              THEN [tally EXCEPT !.total = @ + srec_datacount(line_str)]
                              ELSE tally
  /\ UNCHANGED <<inputs, pc, call, rxbuf, wire, err, exit_code, out_file, srec>>

\* mutant of config_ignored: the CONFIG register is compared like any byte
config_ignored_never(addr) == FALSE

\* if(!arg_params->verify_config && srec_addr == HC11_CONFIG_ADDR)
config_ignored(addr) == ~params.verify_config /\ addr = HC11_CONFIG_ADDR

\* readmem_verify and writemem_file (Tru11) after the bytes of a line came
\* back: the comparison and the counters
LineData ==
  /\ pc = "run"
  /\ call.fn = "none"
  /\ todo # <<>>
  /\ Head(todo).op \in {"verify_data", "write_data"}
  /\ LET s == Head(todo)
         line_str == IF s.op = "verify_data" THEN s.buf ELSE <<>>
         ignored == {i \in 0..(s.len - 1) : config_ignored((s.arg + i) % 65536)}
         throwing == IF s.op = "verify_data"
                       THEN {i \in (0..(s.len - 1)) \ ignored : substr_throws(line_str, i)}
                       ELSE {}
         expected(i) == IF s.op = "verify_data" THEN file_byte(line_str, i) ELSE s.buf[i + 1]
         n == IF throwing = {} THEN s.len ELSE SetMin(throwing)
         t == [tally EXCEPT
                 !.ignore = @ + Cardinality(ignored \cap (0..(n - 1))),
                 !.mismatch = @ + Cardinality({i \in (0..(n - 1)) \ ignored :
                                                 rxbuf[i + 1] # expected(i)})]
     IN IF throwing # {}
          THEN /\ tally' = t
               /\ todo' = <<terminate>>
               /\ UNCHANGED log
          ELSE /\ tally' = [(IF s.op = "verify_data" /\ prog = "TBug11" THEN t
                             ELSE [t EXCEPT !.total = @ + s.len])
                              EXCEPT !.report = line_report(s.len, t.mismatch - tally.mismatch,
                                                            t.ignore - tally.ignore)]
               /\ todo' = Tail(todo)
               /\ log' = Append(log, Ev("compared", s.op, s.len, t.mismatch - tally.mismatch,
                                        t.ignore - tally.ignore))
  /\ UNCHANGED <<inputs, pc, call, rxbuf, wire, err, exit_code, out_file, srec>>

\* an exception that is no tru_exception reaches no handler
Terminate ==
  /\ pc = "run"
  /\ call.fn = "none"
  /\ todo # <<>>
  /\ Head(todo).op = "terminate"
  /\ pc' = "done"
  /\ err' = [id |-> "std::out_of_range", args |-> <<>>]
  /\ exit_code' = 134
  /\ todo' = <<>>
  /\ log' = Append(log, Ev("abort", "std::out_of_range", 0, 0, 0))
  /\ UNCHANGED <<inputs, call, rxbuf, wire, results>>

\* serial.set_params(baud, 8, NOPARITY, ONESTOPBIT, false)
SetParams ==
  /\ pc = "run"
  /\ call.fn = "none"
  /\ todo # <<>>
  /\ Head(todo).op = "set_params"
  /\ todo' = Tail(todo)
  /\ log' = Append(log, Ev("set_params", "none", Head(todo).arg, 0, 0))
  /\ UNCHANGED <<inputs, pc, call, rxbuf, wire, err, exit_code, results>>

\* Sleep(75) / usleep(75000)
Sleep ==
  /\ pc = "run"
  /\ call.fn = "none"
  /\ todo # <<>>
  /\ Head(todo).op = "sleep"
  /\ todo' = Tail(todo)
  /\ log' = Append(log, Ev("sleep", "none", Head(todo).arg, 0, 0))
  /\ UNCHANGED <<inputs, pc, call, rxbuf, wire, err, exit_code, results>>

\* the transfers send_control_program makes once the image is in the buffer
download(buf) ==
  << Step("tx_chunk", <<SYNC_CHAR>>, 1, "TALKER_ECHO_IGNORE", 0),
     Step("txrx_chunk_control_program", buf, Len(buf), "TALKER_ECHO_VERIFY", 0) >>
  \o (IF prog = "TBug11" THEN <<sleep(SETTLE_DELAY_MS)>> ELSE <<>>)

\* send_control_program up to its first transport call
SendControlProgram ==
  /\ pc = "run"
  /\ call.fn = "none"
  /\ todo # <<>>
  /\ Head(todo).op = "send_control_program"
  /\ LET r == LoadTalker(TalkerFile(talker_file))
     IN CASE r.err = "none" ->
               /\ todo' = download(r.buf) \o Tail(todo)
               /\ log' = Append(log, Ev("load", "none", Len(r.buf), 0, 0))
               /\ UNCHANGED <<pc, call, err, exit_code>>
          [] r.err = "APP_ERROR_TALKER_TOO_BIG_ID" ->
               Throw(r.err, <<BOOTLOADER_MAX_BYTE_COUNT>>, <<>>)
          [] OTHER ->
               \* std::out_of_range is no tru_exception: std::terminate
               /\ pc' = "done"
               /\ err' = [id |-> r.err, args |-> <<>>]
               /\ exit_code' = 134
               /\ call' = NoCall
               /\ todo' = <<>>
               /\ log' = Append(log, Ev("abort", r.err, 0, 0, 0))
  /\ UNCHANGED <<inputs, rxbuf, wire, results>>

\* send_control_program, one turn of its do/while loop: a line of the talker
\* file is read and its data bytes are put into the transmit buffer
ReadTalkerLine ==
  /\ pc = "run"
  /\ call.fn = "none"
  /\ todo # <<>>
  /\ Head(todo).op = "read_file_line"
  /\ Head(todo).len <= Len(talker_file)
  /\ LET s == Head(todo)
         r == LoadLine(talker_file[s.len], [buf |-> s.buf, err |-> "none"])
     IN CASE r.err = "none" ->
               /\ todo' = <<[s EXCEPT !.buf = r.buf, !.len = @ + 1]>> \o Tail(todo)
               /\ log' = Append(log, Ev("line", "send_control_program", s.len,
                                        Len(r.buf) - Len(s.buf), 0))
               /\ UNCHANGED <<pc, call, err, exit_code>>
          [] r.err = "APP_ERROR_TALKER_TOO_BIG_ID" ->
               Throw(r.err, <<BOOTLOADER_MAX_BYTE_COUNT>>, <<>>)
          [] OTHER ->
               \* std::out_of_range is no tru_exception: std::terminate
               /\ pc' = "done"
               /\ err' = [id |-> r.err, args |-> <<>>]
               /\ exit_code' = 134
               /\ call' = NoCall
               /\ todo' = <<>>
               /\ log' = log \o <<Ev("line", "send_control_program", s.len,
                                      Len(r.buf) - Len(s.buf), 0),
                                   Ev("abort", r.err, 0, 0, 0)>>
  /\ UNCHANGED <<inputs, rxbuf, wire, results>>

\* send_control_program after the last line: the image is padded
PadTalker ==
  /\ pc = "run"
  /\ call.fn = "none"
  /\ todo # <<>>
  /\ Head(todo).op = "read_file_line"
  /\ Head(todo).len > Len(talker_file)
  /\ todo' = Tail(todo)
  /\ log' = Append(log, Ev("load", "none", Len(PadImage(Head(todo).buf)), 0, 0))
  /\ UNCHANGED <<inputs, pc, call, err, exit_code, rxbuf, wire, results>>

\* process_cmd_line returns and main returns 0
MainReturn ==
  /\ pc = "run"
  /\ call.fn = "none"
  /\ todo = <<>>
  /\ pc' = "done"
  /\ exit_code' = 0
  /\ UNCHANGED <<inputs, todo, call, rxbuf, wire, log, err, results>>

\* ------------------------------------------------------------------------
\* The command line (TBug11)
\* ------------------------------------------------------------------------
\* parse_param_exist: the parameter has the size of the key and compares equal
parse_param_exist(param, key) ==
  Len(param) = Len(key) /\ SubSeq(param, 1, Len(key)) = key

\* the test parse_param_str, parse_param_yn and parse_param_val make: the
\* parameter is longer than the key and starts with it
parse_param_key(param, key) ==
  Len(param) >= Len(key) + 1 /\ SubSeq(param, 1, Len(key)) = key

\* the keys of parse_params_search in the order they are tried
CommandKeys ==
  << <<<<"u","p","t","a","l","k","e","r">>, "CMD_UPTALKER">>,
     <<<<"r","e","a","d">>, "CMD_READ">>,
     <<<<"v","e","r","i","f","y">>, "CMD_READ_VERIFY">>,
     <<<<"w","r","i","t","e","h","e","x">>, "CMD_WRITEHEXSTR">>,
     <<<<"w","r","i","t","e">>, "CMD_WRITE">>,
     <<<<"w","r","i","t","e","_","e","e">>, "CMD_WRITE_EEPROM">>,
     <<<<"w","r","i","t","e","_","e">>, "CMD_WRITE_EPROM">>,
     <<<<"w","r","i","t","e","_","e","2","0">>, "CMD_WRITE_EPROM_E20">> >>

\* parse_params_search: the first key that matches sets cmd; fast= sets
\* use_fast; the other value parameters set fields the model does not hold
parse_params_search(param, my_params) ==
  LET hits == {k \in 1..Len(CommandKeys) : parse_param_exist(param, CommandKeys[k][1])}
  IN IF hits # {}
       THEN [my_params EXCEPT !.cmd = CommandKeys[SetMin(hits)][2]]
     ELSE IF parse_param_key(param, <<"f","a","s","t","=">>)
       THEN [my_params EXCEPT !.use_fast = param[6] = "y"]
     ELSE my_params

\* parse_params: one turn of the loop over arg_v[1..arg_c - 1]
ParseParams ==
  /\ pc = "parse"
  /\ todo # <<>>
  /\ Head(todo).op = "parse_params"
  /\ Head(todo).len <= Len(arg_v)
  /\ params' = parse_params_search(arg_v[Head(todo).len], params)
  /\ todo' = <<[Head(todo) EXCEPT !.len = @ + 1]>>
  /\ UNCHANGED <<prog, arg_v, talker_file, in_file, pc, call, rxbuf, wire, log, err,
                 exit_code, results>>

\* parse_params returns to main, which calls process_cmd_line
ParseReturn ==
  /\ pc = "parse"
  /\ todo # <<>>
  /\ Head(todo).op = "parse_params"
  /\ Head(todo).len > Len(arg_v)
  /\ pc' = "start"
  /\ todo' = <<>>
  /\ UNCHANGED <<inputs, call, rxbuf, wire, log, err, exit_code, results>>

\* ------------------------------------------------------------------------
\* Specifications
\* ------------------------------------------------------------------------
TxSizes == (1..MaxChunk) \cup {DEFAULT_BUF_SIZE}

RxSizes == {1, DEFAULT_BUF_SIZE}

Programs == {"Tru11", "TBug11"}

Params(cmd, fast, tx, rx, from, to, data) ==
  [cmd |-> cmd, use_fast |-> fast, serial_txbuf_size |-> tx, serial_rxbuf_size |-> rx,
   serial_prog_txbuf_size |-> 2, from_addr |-> from, to_addr |-> to, data |-> data,
   srec_datalen |-> DEFAULT_SREC_DATALEN, verify_config |-> FALSE, answer |-> <<"y", "\n">>]

\* regions read by CMD_READ: one byte, a few bytes, more than one command
ReadRegions == {<<0, 0>>, <<4158, 4160>>, <<65280, 65280 + TALKER_MAX_BYTE_COUNT>>}

\* sixteen bytes from 0x0000, read with transport buffers of eight bytes
ScenarioRegion == <<0, 15>>

ScenarioChunk == 8

\* a hex string of TALKER_MAX_BYTE_COUNT bytes
LongHex == [i \in 1..(2 * TALKER_MAX_BYTE_COUNT) |-> IF i % 2 = 1 THEN "5" ELSE "A"]

\* payloads of CMD_WRITEHEXSTR, with their address
HexStrings == {<<16, <<"A", "B">> >>, <<4158, <<"1", "2", "3">> >>, <<65280, LongHex>>}

Idle ==
  /\ arg_v = <<>>
  /\ call = NoCall
  /\ rxbuf = <<>>
  /\ wire = <<>>
  /\ log = <<>>
  /\ err = NoError
  /\ exit_code = -1
  /\ out_file = <<>>
  /\ srec = srec_start(0)
  /\ tally = NoTally

\* a program started on a command line
\* TBug11 has no command line parameter for its buffer sizes
Sizes(p) ==
  IF p = "TBug11" THEN {<<DEFAULT_BUF_SIZE, DEFAULT_BUF_SIZE>>} ELSE TxSizes \X RxSizes

\* values of srec_datalen other than the default, for Tru11
SrecDataLens == {1, 3}

\* memory as the device holds it: n bytes from address a
DeviceData(a, n) == [i \in 1..n |-> DeviceByte((a + i - 1) % 65536)]

\* the file readmem writes for the n bytes data read from address a
RecordsOf(a, data) ==
  readmem_finish(readmem_bytes(srec_with(srec_start(a), <<S0Line>>), data, a, 1, Len(data)))

\* regions whose image is verified or written back: across 0xFFFF, and
\* across the CONFIG register
FileRegions == {<<65534, 4>>, <<HC11_CONFIG_ADDR - 1, 3>>}

\* a header, lines that are no S1 records (empty, too short, other types, a
\* lower-case tag), a record of two bytes and a record of three bytes of
\* which the first is as in the device, the second sits at the CONFIG
\* register and the third differs from the device
MixedFile ==
  << S0Line, <<>>, <<"S", "1", "0", "4">>, <<"S", "1", "0", "5", "0", "0", "1">>,
     <<"S", "2", "0", "5", "0", "0", "0", "0", "2", "0", "A", "B", "2", "F">>,
     <<"s", "1">> \o Tail(Tail(S1Line(48, <<18>>))),
     S1Line(16, <<171, 205>>),
     S1Line(HC11_CONFIG_ADDR - 1,
            <<DeviceByte(HC11_CONFIG_ADDR - 1), 1, Compl(DeviceByte(HC11_CONFIG_ADDR + 1))>>),
     S9Line >>

\* a record without data (byte count 3) and a line whose byte count is 2
CountsFile ==
  << S1Line(32, <<>>), S1Line(64, <<90>>),
     <<"S", "1", "0", "2", "0", "0", "0", "0", "F", "D">>, S1Line(80, <<165>>) >>

\* a short file for the loops that program byte by byte: a byte next to the
\* CONFIG register and the register itself
BulkFile ==
  << S0Line, <<"S", "1">>, S1Line(HC11_CONFIG_ADDR - 1, <<1, 2>>), <<"S", "9", "0", "3">>,
     S9Line >>

\* a line of byte count 1 for the loops that program byte by byte
BulkCountsFile == << <<"S", "1", "0", "1", "0", "0", "2", "0">>, S1Line(96, <<7>>) >>

\* three bytes for the EEPROM, as a hex string and as a record
ProgHex == <<46592, <<"A", "B", "C", "D", "E", "F">> >>

ProgFile == << S1Line(53248, <<1, 2, 3>>) >>

FileCommands ==
  [Tru11 |-> {"CMD_READ_VERIFY", "CMD_WRITE", "CMD_WRITE_EE"},
   TBug11 |-> {"CMD_READ_VERIFY", "CMD_WRITE"}]

BulkCommands == {"CMD_WRITE_EEPROM", "CMD_WRITE_EPROM", "CMD_WRITE_EPROM_E20"}

Init ==
  /\ prog \in Programs
  /\ \E sz \in Sizes(prog) :
       \/ /\ \E fast \in BOOLEAN : params = Params("CMD_UPTALKER", fast, sz[1], sz[2], 0, 0, <<>>)
          /\ talker_file \in LenSeqs
          /\ in_file = <<>>
       \/ /\ \E r \in ReadRegions : params = Params("CMD_READ", FALSE, sz[1], sz[2], r[1], r[2], <<>>)
          /\ talker_file = <<>>
          /\ in_file = <<>>
       \/ /\ prog = "Tru11"
          /\ sz = <<DEFAULT_BUF_SIZE, DEFAULT_BUF_SIZE>>
          /\ \E r \in ReadRegions, n \in SrecDataLens :
               params = [Params("CMD_READ", FALSE, sz[1], sz[2], r[1], r[2], <<>>)
                           EXCEPT !.srec_datalen = n]
          /\ talker_file = <<>>
          /\ in_file = <<>>
       \/ /\ prog = "Tru11"
          /\ sz = <<DEFAULT_BUF_SIZE, DEFAULT_BUF_SIZE>>
          /\ params = Params("CMD_READ", FALSE, ScenarioChunk, ScenarioChunk,
                             ScenarioRegion[1], ScenarioRegion[2], <<>>)
          /\ talker_file = <<>>
          /\ in_file = <<>>
       \/ /\ \E h \in HexStrings :
               params = Params("CMD_WRITEHEXSTR", FALSE, sz[1], sz[2], h[1], 0, h[2])
          /\ talker_file = <<>>
          /\ in_file = <<>>
       \/ /\ \E c \in FileCommands[prog], vc \in BOOLEAN, ok \in Answers :
               /\ params = [Params(c, FALSE, sz[1], sz[2], 0, 0, <<>>)
                              EXCEPT !.verify_config = vc /\ prog = "Tru11",
                                     !.answer = IF c = "CMD_WRITE_EE" THEN ok ELSE <<"y", "\n">>]
          /\ talker_file = <<>>
          /\ \/ in_file \in {MixedFile, CountsFile}
             \/ \E r \in FileRegions : in_file = RecordsOf(r[1], DeviceData(r[1], r[2]))
       \/ /\ prog = "Tru11"
          /\ \E ok \in Answers :
               params = [Params("CMD_WRITE_EE_HEXSTR", FALSE, sz[1], sz[2], ProgHex[1], 0,
                                ProgHex[2]) EXCEPT !.answer = ok]
          /\ talker_file = <<>>
          /\ in_file = <<>>
       \/ /\ prog = "Tru11"
          /\ \E c \in {"CMD_WRITE_E", "CMD_WRITE_E20"}, ok \in Answers :
               params = [Params(c, FALSE, sz[1], sz[2], 0, 0, <<>>) EXCEPT !.answer = ok]
          /\ talker_file = <<>>
          /\ in_file = ProgFile
       \/ /\ prog = "TBug11"
          /\ \E c \in BulkCommands, ok \in Answers :
               params = [Params(c, FALSE, sz[1], sz[2], 0, 0, <<>>) EXCEPT !.answer = ok]
          /\ talker_file = <<>>
          /\ in_file \in {BulkFile, BulkCountsFile}
  /\ pc = "start"
  /\ todo = <<>>
  /\ Idle

Next ==
  \/ ProcessCmdLine
  \/ SetParams
  \/ SendControlProgram
  \/ Sleep
  \/ Readmem
  \/ ReadmemLoop
  \/ ReadmemData
  \/ FileLoop
  \/ LineData
  \/ Terminate
  \/ WritememHexstr
  \/ Enter
  \/ WritePort
  \/ ReadPort
  \/ ReadPortLast
  \/ MainReturn

Spec == Init /\ [][Next]_vars

\* one transfer primitive called on a buffer of N bytes
TxPattern(n) == [i \in 1..n |-> DataByte(i)]

UnitCalls ==
  {Step(fn, TxPattern(n), n, e, 0) :
     fn \in {"tx_chunk", "rx_chunk"}, n \in 0..MaxLen, e \in {"TALKER_ECHO_IGNORE"}}
  \cup {Step("txrx_chunk", TxPattern(n), n, e, 0) : n \in 0..MaxLen, e \in Policies}

InitChunk ==
  /\ prog \in Programs
  /\ \E tx \in 1..MaxChunk, rx \in 1..MaxChunk :
       params = Params("none", FALSE, tx, rx, 0, 0, <<>>)
  /\ talker_file = <<>>
  /\ in_file = <<>>
  /\ pc = "run"
  /\ \E s \in UnitCalls :
       /\ (prog = "Tru11" => s.echo # "TALKER_ECHO_VERIFY_COM")
       /\ todo = <<s>>
  /\ Idle

NextChunk ==
  \/ Enter
  \/ WritePort
  \/ ReadPort
  \/ MainReturn

SpecChunk == InitChunk /\ [][NextChunk]_vars

\* one erase or program function called on its own
ByteOps ==
  {"eeprom_prog_byte", "eeprom_bulk_erase", "eeprom_row_erase", "eeprom_byte_erase",
   "eprom_prog_byte", "eprom_prog_e20_byte"}

\* the EEPROM, the CONFIG register and its neighbour, the EPROM
OpAddrs == {46592, HC11_CONFIG_ADDR - 1, HC11_CONFIG_ADDR, 53503}

OpBytes == {0, 90, 255}

byte_op(name, address, byte) ==
  CASE name = "eeprom_prog_byte" -> eeprom_prog_byte(address, byte)
    [] name = "eeprom_bulk_erase" -> eeprom_bulk_erase(address, byte)
    [] name = "eeprom_row_erase" -> eeprom_row_erase(address, byte)
    [] name = "eeprom_byte_erase" -> eeprom_byte_erase(address, byte)
    [] name = "eprom_prog_byte" -> eprom_prog_byte(address, byte)
    [] OTHER -> eprom_prog_e20_byte(address, byte)

InitOps ==
  /\ prog = "TBug11"
  /\ \E name \in ByteOps, address \in OpAddrs, byte \in OpBytes :
       /\ params = Params(name, FALSE, DEFAULT_BUF_SIZE, DEFAULT_BUF_SIZE, address, 0, <<byte>>)
       /\ todo = byte_op(name, address, byte)
  /\ talker_file = <<>>
  /\ in_file = <<>>
  /\ pc = "run"
  /\ Idle

SpecOps == InitOps /\ [][NextChunk]_vars

\* read-to-file with the addresses a command line can give: a region of two
\* bytes, to_addr below from_addr by one and by two, and to_addr = 0x10000
AnyRegions == {<<16, 17>>, <<1, 0>>, <<2, 0>>, <<0, 65536>>}

InitRegion ==
  /\ prog \in Programs
  /\ \E r \in AnyRegions :
       params = Params("CMD_READ", FALSE, DEFAULT_BUF_SIZE, DEFAULT_BUF_SIZE, r[1], r[2], <<>>)
  /\ talker_file = <<>>
  /\ in_file = <<>>
  /\ pc = "start"
  /\ todo = <<>>
  /\ Idle

NextRegion ==
  \/ ProcessCmdLine
  \/ SetParams
  \/ Readmem
  \/ ReadmemLoop
  \/ ReadmemData
  \/ Enter
  \/ WritePort
  \/ ReadPort
  \/ MainReturn

SpecRegion == InitRegion /\ [][NextRegion]_vars

\* an S1 record of two data bytes cut short after n characters, whole, or
\* followed by up to two more characters; and a header
CutLines ==
  {SubSeq(S1Line(0, <<1, 2>>) \o <<"0", "0">>, 1, n) : n \in 8..16} \cup {S0Line}

\* send_control_program about to read the first line of such a file
InitLoad ==
  /\ prog \in Programs
  /\ \E fast \in BOOLEAN :
       params = Params("CMD_UPTALKER", fast, DEFAULT_BUF_SIZE, DEFAULT_BUF_SIZE, 0, 0, <<>>)
  /\ talker_file \in UNION {[1..n -> CutLines] : n \in 0..MaxLines}
  /\ in_file = <<>>
  /\ pc = "run"
  /\ todo = <<Step("read_file_line", <<>>, 1, "TALKER_ECHO_IGNORE", 0)>>
  /\ Idle

NextLoad ==
  \/ ReadTalkerLine
  \/ PadTalker
  \/ MainReturn

SpecLoad == InitLoad /\ [][NextLoad]_vars

\* main hands the command line to parse_params
Words ==
  { <<"u","p","t","a","l","k","e","r">>, <<"r","e","a","d">>, <<"v","e","r","i","f","y">>,
    <<"w","r","i","t","e","_","h","e","x">>, <<"w","r","i","t","e","h","e","x">>,
    <<"w","r","i","t","e">>, <<"w","r","i","t","e","_","e","e">>,
    <<"w","r","i","t","e","_","e">>, <<"w","r","i","t","e","_","e","2","0">>,
    <<"f","a","s","t","=","y">>, <<"f","a","s","t","=">>, <<"f","i","l","e","=","a">> }

CommandLines == UNION {[1..n -> Words] : n \in 1..MaxArgs}

InitParse ==
  /\ prog = "TBug11"
  /\ params = Params("CMD_NONE", FALSE, DEFAULT_BUF_SIZE, DEFAULT_BUF_SIZE, 0, 0, <<>>)
  /\ arg_v \in CommandLines
  /\ talker_file = <<>>
  /\ in_file = <<>>
  /\ pc = "parse"
  /\ todo = <<Step("parse_params", <<>>, 1, "TALKER_ECHO_IGNORE", 0)>>
  /\ call = NoCall
  /\ rxbuf = <<>>
  /\ wire = <<>>
  /\ log = <<>>
  /\ err = NoError
  /\ exit_code = -1
  /\ out_file = <<>>
  /\ srec = srec_start(0)
  /\ tally = NoTally

NextParse ==
  \/ ParseParams
  \/ ParseReturn

SpecParse == InitParse /\ [][NextParse]_vars
\* ------------------------------------------------------------------------
\* Reading the log
\* ------------------------------------------------------------------------
CeilDiv(n, b) == (n + b - 1) \div b

\* the primitive called on its own is fn
UnitIs(fn) == params.cmd = "none" /\ Len(log) > 0 /\ log[1].ev = "call" /\ log[1].fn = fn

\* the last thing that happened is the return of a primitive
Returned == Len(log) > 0 /\ log[Len(log)].ev = "ret"

Writes == SelectSeq(log, LAMBDA e : e.ev = "write")

\* the bytes requested by the first k writes of W
Requested(W, k) == SumRange([j \in 1..Len(W) |-> W[j].b], 1, k)

\* the index of the first write after event i, Len(log) + 1 if there is none
NextWrite(i) ==
  LET later == {j \in (i + 1)..Len(log) : log[j].ev = "write"}
  IN IF later = {} THEN Len(log) + 1 ELSE SetMin(later)

\* the bytes the reads among events i+1..j-1 returned
ReadBetween(i, j) ==
  SumSeq([k \in 1..(j - i - 1) |-> IF log[i + k].ev = "read" THEN log[i + k].c ELSE 0])

\* the buffer handed to the primitive called on its own
UnitTx == TxPattern(log[1].a)

\* pair i (counted from 1) of the unit call fails policy p
Mismatch(p, i) ==
  CASE p = "TALKER_ECHO_VERIFY" -> rxbuf[i] # UnitTx[i]
    [] p = "TALKER_ECHO_VERIFY_COM" -> rxbuf[i] # Compl(UnitTx[i])
    [] OTHER -> FALSE

\* ------------------------------------------------------------------------
\* C1: tx_chunk on N bytes with chunk size B makes ceil(N/B) writes, each of
\* at most B bytes, that add up to N and cover the buffer from its start,
\* each write beginning where the one before ended.
\* ------------------------------------------------------------------------
C1_TxChunkWrites ==
  UnitIs("tx_chunk") =>
    LET N == log[1].a
        B == params.serial_txbuf_size
        W == Writes
    IN /\ \A k \in 1..Len(W) :
            /\ W[k].b >= 1
            /\ W[k].b <= B
            /\ W[k].a = Requested(W, k - 1)
       /\ Returned =>
            /\ Len(W) = CeilDiv(N, B)
            /\ Requested(W, Len(W)) = N
            /\ \A k \in 1..Len(W) : W[k].c = W[k].b
            /\ wire = UnitTx

\* tx_chunk returned after two writes, the second shorter than the first
C1_Witness ==
  /\ UnitIs("tx_chunk")
  /\ Returned
  /\ Len(Writes) = 2
  /\ Writes[2].b < Writes[1].b

\* ------------------------------------------------------------------------
\* C2 (as amended): under TALKER_ECHO_VERIFY a chunk passes iff every pair is
\* equal, under TALKER_ECHO_VERIFY_COM iff every received byte is the
\* complement of the byte sent; the error is raised at the first pair that
\* fails and carries the byte sent and the byte received (its complement
\* under TALKER_ECHO_VERIFY_COM), and no index.
\* ------------------------------------------------------------------------
\* the first failing pair of the chunk checked by event e, counted from 0
FirstMismatch(e) == SetMin({i \in 0..(e.b - 1) : Mismatch(e.p, e.a + i + 1)})

C2_EchoPolicies ==
  UnitIs("txrx_chunk") =>
    /\ \A k \in 1..Len(log) :
         log[k].ev = "check" =>
           LET e == log[k]
               failing == {i \in 0..(e.b - 1) : Mismatch(e.p, e.a + i + 1)}
           IN /\ (e.c = -1) <=> (failing = {})
              /\ failing # {} =>
                   /\ e.c = FirstMismatch(e)
                   /\ k + 1 = Len(log)
                   /\ log[k + 1].ev = "throw"
                   /\ err.id = "APP_ERROR_ECHO_ID"
                   /\ err.args = << UnitTx[e.a + e.c + 1],
                                    IF e.p = "TALKER_ECHO_VERIFY_COM"
                                      THEN Compl(rxbuf[e.a + e.c + 1])
                                      ELSE rxbuf[e.a + e.c + 1] >>
              /\ failing = {} => (k < Len(log) => log[k + 1].ev # "throw")
    /\ err.id = "APP_ERROR_ECHO_ID" => log[Len(log) - 1].ev = "check"

\* the complement check failed at the second pair of a chunk and a later pair
\* fails as well
C2_Witness ==
  /\ UnitIs("txrx_chunk")
  /\ err.id = "APP_ERROR_ECHO_ID"
  /\ log[Len(log) - 1].p = "TALKER_ECHO_VERIFY_COM"
  /\ log[Len(log) - 1].c = 1
  /\ Cardinality({i \in 0..(log[Len(log) - 1].b - 1) :
                    Mismatch("TALKER_ECHO_VERIFY_COM", log[Len(log) - 1].a + i + 1)}) > 1

\* C2 as stated: the error carries the index of the pair, the byte sent and
\* the byte received
C2_Original ==
  (UnitIs("txrx_chunk") /\ err.id = "APP_ERROR_ECHO_ID") =>
    LET e == log[Len(log) - 1]
    IN err.args = <<e.a + FirstMismatch(e), UnitTx[e.a + FirstMismatch(e) + 1],
                    rxbuf[e.a + FirstMismatch(e) + 1]>>

\* ------------------------------------------------------------------------
\* C3: in txrx_chunk a write of k bytes is followed, before the next write,
\* by reads that return k bytes in all and by the echo check of those k
\* pairs; after a failed echo check nothing is written any more.
\* ------------------------------------------------------------------------
C3_WriteReadCheck ==
  UnitIs("txrx_chunk") =>
    \A i \in 1..Len(log) :
      log[i].ev = "write" =>
        LET j == NextWrite(i)
            checks == {c \in (i + 1)..(j - 1) : log[c].ev = "check"}
        IN /\ (j <= Len(log) \/ Returned) =>
                /\ log[i].c = log[i].b
                /\ ReadBetween(i, j) = log[i].b
                /\ Cardinality(checks) = 1
                /\ \A c \in checks :
                     /\ log[c].a = log[i].a
                     /\ log[c].b = log[i].b
                     /\ log[c].c = -1
                     /\ \A r \in (i + 1)..(j - 1) : log[r].ev = "read" => r < c
           /\ \A c \in checks : log[c].c >= 0 => (j = Len(log) + 1 /\ pc = "done")
           /\ \A c \in checks : ReadBetween(i, c) = log[i].b

\* two chunks went out, the first read back in two reads
C3_Witness ==
  /\ UnitIs("txrx_chunk")
  /\ Returned
  /\ Len(Writes) = 2
  /\ \E r \in 1..Len(log) : log[r].ev = "read" /\ log[r].a > 0 /\ r < NextWrite(2)

\* ------------------------------------------------------------------------
\* C4: in tx_chunk, rx_chunk and txrx_chunk a transport call that moves a
\* number of bytes other than the one requested ends the operation with the
\* transfer error: no retry, no later transport call, a non-zero exit status.
\* ------------------------------------------------------------------------
C4_ShortfallAborts ==
  params.cmd = "none" =>
    \A i \in 1..Len(log) :
      (log[i].ev \in {"write", "read"} /\ log[i].c # log[i].b) =>
        /\ i + 1 = Len(log)
        /\ log[i + 1].ev = "throw"
        /\ pc = "done"
        /\ err.id = (IF log[i].ev = "write" THEN "APP_ERROR_TX_FAIL_ID" ELSE "APP_ERROR_RX_FAIL_ID")
        /\ err.args = <<log[i].b, log[i].c>>
        /\ exit_code # 0
        /\ exit_code # -1

\* the read-back of the second chunk of txrx_chunk came back one byte short
C4_Witness ==
  /\ UnitIs("txrx_chunk")
  /\ err.id = "APP_ERROR_RX_FAIL_ID"
  /\ Len(Writes) = 2
  /\ log[Len(log) - 1].c = log[Len(log) - 1].b - 1
  /\ log[Len(log) - 1].c > 0

\* ------------------------------------------------------------------------
\* Reading the log of a whole run
\* ------------------------------------------------------------------------
Ctrl == "txrx_chunk_control_program"

\* the offset of the last byte of the image
LastIx == BOOTLOADER_MAX_BYTE_COUNT - 1

\* no step appends more than four entries to the log (a read, its check, the
\* swallowed error and the return), so every entry is among the last
\* Window entries in the state its step leads to: a property of an entry and
\* the entries after it that holds there for every reachable state holds for
\* every entry of every log
Window == 5

Recent == (IF Len(log) > Window THEN Len(log) - Window + 1 ELSE 1)..Len(log)

Uptalker == params.cmd = "CMD_UPTALKER"

\* the read of the echo of the last image byte
LastByteRead(i) == log[i].ev = "read" /\ log[i].fn = Ctrl /\ log[i].a = LastIx

\* a read or a check of the control program that covers bytes before the
\* last one only
EarlierByte(i) ==
  /\ log[i].fn = Ctrl
  /\ log[i].ev \in {"read", "check"}
  /\ log[i].a + log[i].b <= LastIx

\* the control program returned right after the events of read i
ReturnedAfter(i) ==
  \E j \in {i + 2, i + 3} :
    /\ j <= Len(log)
    /\ log[j].ev = "ret"
    /\ log[j].fn = Ctrl
    /\ \A k \in i..j : log[k].ev \notin {"throw", "abort"}

\* what the transport is to receive: the sync byte, the data, the padding
Expected ==
  <<SYNC_CHAR>> \o FileData(talker_file)
    \o [i \in 1..(BOOTLOADER_MAX_BYTE_COUNT - SumSeq(talker_file)) |-> 0]

\* its k-th byte
ExpectedAt(k) ==
  IF k = 1 THEN SYNC_CHAR
  ELSE IF k - 1 <= SumSeq(talker_file) THEN DataByte(k - 2)
  ELSE 0

\* the byte at offset k of the image of a file that fits
ImageAt(k) == ExpectedAt(k + 2)

\* entry i is the last of the log and an exception with this id ended the run
Aborted(i, id) ==
  /\ i + 1 = Len(log)
  /\ log[i + 1].ev = "throw"
  /\ log[i + 1].fn = id
  /\ pc = "done"
  /\ err.id = id
  /\ exit_code \notin {0, -1}

\* ------------------------------------------------------------------------
\* C5: whatever the transmit chunk size, once the echoes of bytes 0..N-2
\* were right, an echo of the last byte N-1 that does not arrive or has a
\* wrong value does not make txrx_chunk_control_program raise an error.
\* ------------------------------------------------------------------------
C5_LastByteTolerated ==
  \A i \in Recent :
    LastByteRead(i) =>
      /\ i + 1 <= Len(log)
      /\ log[i + 1].ev = "check"
      /\ \A k \in 1..(i - 1) : EarlierByte(k) =>
           (IF log[k].ev = "read" THEN log[k].c = log[k].b ELSE log[k].c = -1)
      /\ (log[i].c # log[i].b \/ log[i + 1].c >= 0) => ReturnedAfter(i)

\* the echo of the last byte of a final chunk of two bytes never came and
\* the upload ended with status 0
C5_Witness ==
  /\ Uptalker
  /\ prog = "Tru11"
  /\ params.serial_txbuf_size = 2
  /\ pc = "done"
  /\ exit_code = 0
  /\ \E i \in 1..(Len(log) - 1) : LastByteRead(i) /\ log[i].c = 0 /\ log[i + 1].c >= 0

\* ------------------------------------------------------------------------
\* C6 (as amended): in the bootstrap download a read of the echo of an image
\* byte other than the last that returns fewer bytes than asked ends the
\* download with the receive-shortfall error, and a wrong value for such a
\* byte ends it with the echo error, whatever the chunk size and the
\* position; a chunk is only written when the bytes of the chunk before it
\* came back equal, and the download only returns when bytes 0..N-2 did.
\* ------------------------------------------------------------------------
C6_EarlierByteFatal ==
  Uptalker =>
    /\ \A i \in Recent :
         EarlierByte(i) =>
           /\ (log[i].ev = "read" /\ log[i].c # log[i].b) => Aborted(i, "APP_ERROR_RX_FAIL_ID")
           /\ (log[i].ev = "check" /\ log[i].c >= 0) =>
                /\ Aborted(i, "APP_ERROR_ECHO_ID")
                /\ err.args = <<ImageAt(log[i].a + log[i].c), rxbuf[log[i].a + log[i].c + 1]>>
                /\ ImageAt(log[i].a + log[i].c) # rxbuf[log[i].a + log[i].c + 1]
    /\ \A i \in Recent :
         (log[i].ev = "write" /\ log[i].fn = Ctrl /\ call.fn = Ctrl) =>
           \A k \in (IF log[i].a > params.serial_txbuf_size
                       THEN log[i].a - params.serial_txbuf_size ELSE 0)..(log[i].a - 1) :
             rxbuf[k + 1] = ImageAt(k)
    /\ (Len(log) > 0 /\ log[Len(log)].ev = "ret" /\ log[Len(log)].fn = Ctrl) =>
         \A k \in 0..(LastIx - 1) : rxbuf[k + 1] = ImageAt(k)

\* the echo of a byte in the middle of the image did not arrive
C6_Witness ==
  /\ Uptalker
  /\ err.id = "APP_ERROR_RX_FAIL_ID"
  /\ Len(log) > 1
  /\ EarlierByte(Len(log) - 1)
  /\ log[Len(log) - 1].ev = "read"
  /\ log[Len(log) - 1].a > 100
  /\ log[Len(log) - 1].a < 200
  /\ log[Len(log) - 1].c = 0

\* C6 as stated: a missing echo of a byte before the last one ends the
\* download with the echo error
C6_Original ==
  Uptalker =>
    \A i \in Recent :
      (EarlierByte(i) /\ log[i].ev = "read" /\ log[i].c # log[i].b) =>
        (pc = "done" /\ err.id = "APP_ERROR_ECHO_ID")

\* ------------------------------------------------------------------------
\* C7: a transport call that falls short and an echo check that fails end
\* the operation, in every operation of both programs, except the read and
\* the check of the last byte of the bootstrap image; a write of the
\* bootstrap download that falls short is fatal in the final chunk too.
\* ------------------------------------------------------------------------
Failure(i) ==
  \/ log[i].ev \in {"write", "read"} /\ log[i].c # log[i].b
  \/ log[i].ev = "check" /\ log[i].c >= 0

LastBootByte(i) ==
  /\ log[i].fn = Ctrl
  /\ log[i].ev \in {"read", "check"}
  /\ log[i].a = LastIx
  /\ log[i].b = 1

C7_OnlyLastByteSwallowed ==
  \A i \in Recent :
    /\ (Failure(i) /\ ~LastBootByte(i)) =>
         /\ i + 1 = Len(log)
         /\ log[i + 1].ev = "throw"
         /\ pc = "done"
         /\ err.id # "none"
         /\ exit_code \notin {0, -1}
    /\ log[i].ev = "swallow" => (i > 1 /\ LastBootByte(i - 1))
    /\ (Failure(i) /\ i < Len(log) /\ log[i + 1].ev # "throw") => LastBootByte(i)

\* the write of the final chunk of the image fell short and ended the upload
C7_Witness ==
  /\ Uptalker
  /\ err.id = "APP_ERROR_TX_FAIL_ID"
  /\ Len(log) > 1
  /\ log[Len(log) - 1].fn = Ctrl
  /\ log[Len(log) - 1].ev = "write"
  /\ log[Len(log) - 1].a + log[Len(log) - 1].b = BOOTLOADER_MAX_BYTE_COUNT
  /\ log[Len(log) - 1].c = log[Len(log) - 1].b - 1

\* ------------------------------------------------------------------------
\* C8: a talker file with more than 256 S1 data bytes fails with the
\* image-too-large error before anything, the sync byte included, is written
\* to the transport; a file with 256 data bytes or fewer never raises it.
\* ------------------------------------------------------------------------
C8_ImageTooLarge ==
  Uptalker =>
    /\ SumSeq(talker_file) > BOOTLOADER_MAX_BYTE_COUNT =>
         /\ wire = <<>>
         /\ \A i \in 1..Len(log) : log[i].ev \notin {"call", "write", "read", "load"}
         /\ pc = "done" =>
              /\ err.id = "APP_ERROR_TALKER_TOO_BIG_ID"
              /\ exit_code \notin {0, -1}
    /\ SumSeq(talker_file) <= BOOTLOADER_MAX_BYTE_COUNT =>
         /\ err.id # "APP_ERROR_TALKER_TOO_BIG_ID"
         /\ (pc = "done" \/ Len(log) > 1) =>
              (Len(log) > 1 /\ log[2] = Ev("load", "none", BOOTLOADER_MAX_BYTE_COUNT, 0, 0))

\* a file of 257 data bytes was refused
C8_Witness ==
  /\ Uptalker
  /\ SumSeq(talker_file) = BOOTLOADER_MAX_BYTE_COUNT + 1
  /\ pc = "done"
  /\ err.id = "APP_ERROR_TALKER_TOO_BIG_ID"
  /\ wire = <<>>

\* ------------------------------------------------------------------------
\* C9: for a talker file with n <= 256 S1 data bytes the 256 bytes sent after
\* the sync byte are the n data bytes in file order, whatever the addresses
\* of the records, followed by 256 - n bytes 0x00.
\* ------------------------------------------------------------------------
\* the bytes the last write may have added to the wire
WireRecent ==
  (IF Len(wire) > params.serial_txbuf_size THEN Len(wire) - params.serial_txbuf_size + 1 ELSE 1)
    ..Min(Len(wire), BOOTLOADER_MAX_BYTE_COUNT + 1)

C9_ImageOnWire ==
  (Uptalker /\ SumSeq(talker_file) <= BOOTLOADER_MAX_BYTE_COUNT) =>
    /\ \A k \in WireRecent : wire[k] = ExpectedAt(k)
    /\ \A i \in Recent :
         /\ (log[i].ev = "call" /\ log[i].fn = Ctrl) => log[i].a = BOOTLOADER_MAX_BYTE_COUNT
         /\ (log[i].ev = "ret" /\ log[i].fn = Ctrl) =>
              SubSeq(wire, 1, BOOTLOADER_MAX_BYTE_COUNT + 1) = Expected
    /\ (prog = "Tru11" /\ pc = "done" /\ exit_code = 0) => wire = Expected

\* a file of two records, nine data bytes in all, went out whole
C9_Witness ==
  /\ Uptalker
  /\ prog = "Tru11"
  /\ Len(talker_file) = 2
  /\ SumSeq(talker_file) = 9
  /\ pc = "done"
  /\ exit_code = 0
  /\ wire[10] # 0
  /\ wire[11] = 0

\* ------------------------------------------------------------------------
\* C10: upload-talker sets the link to the bootloader's rate, writes the sync
\* byte 0xFF and reads no echo for it, transfers the 256 image bytes with
\* their echoes, waits the settle delay and only then sets the link to 9600
\* baud; nothing is read or written between the last image byte and the
\* change of rate.
\* ------------------------------------------------------------------------
\* entry i is a call on the serial port
PortCall(i) == log[i].ev \in {"set_params", "write", "read"}

C10_UploadOrder ==
  Uptalker =>
    /\ Len(log) >= 1 =>
         log[1] = Ev("set_params", "none",
                     IF params.use_fast THEN BAUD_BOOT_FAST ELSE BAUD_BOOT_SLOW, 0, 0)
    /\ Len(log) >= 2 => ~PortCall(2)
    /\ Len(log) >= 3 => log[3] = Ev("call", "tx_chunk", 1, 0, 0)
    /\ Len(log) >= 4 =>
         /\ log[4].ev = "write" /\ log[4].a = 0 /\ log[4].b = 1
         /\ log[4].c = 1 => wire[1] = SYNC_CHAR
    /\ Len(log) >= 5 => ~PortCall(5)
    /\ Len(log) >= 6 => log[6] = Ev("call", Ctrl, BOOTLOADER_MAX_BYTE_COUNT, 0, 0)
    /\ Len(log) >= 7 => (log[7].ev = "write" /\ log[7].fn = Ctrl /\ log[7].a = 0)
    /\ \A i \in Recent :
         /\ log[i].ev = "sleep" =>
              /\ log[i].a = SETTLE_DELAY_MS
              /\ log[i - 1] = Ev("ret", Ctrl, BOOTLOADER_MAX_BYTE_COUNT, 0, 0)
         /\ (log[i].ev = "ret" /\ log[i].fn = Ctrl) =>
              /\ log[i - 1].ev \in {"check", "swallow"}
              /\ log[i - 1].a = LastIx
         /\ (i > 1 /\ log[i].ev = "set_params") =>
              /\ log[i].a = BAUD_TALKER
              /\ log[i - 1].ev = "sleep"
         /\ (log[i].ev = "call" /\ log[i].fn = Ctrl) => i = 6
         /\ (i > 7 /\ log[i].ev = "call") => log[i - 1].ev \in {"set_params", "ret"}
    /\ (pc = "done" /\ exit_code = 0) =>
         \E i \in 1..Len(log) : log[i] = Ev("set_params", "none", BAUD_TALKER, 0, 0)

\* TBug11 uploaded the talker at the slow rate and switched the chip to test
\* mode afterwards
C10_Witness ==
  /\ Uptalker
  /\ prog = "TBug11"
  /\ ~params.use_fast
  /\ pc = "done"
  /\ exit_code = 0
  /\ log[Len(log)] = Ev("ret", "txrx_chunk", 1, 0, 0)

\* ------------------------------------------------------------------------
\* Reading the command frames of the memory operations
\* ------------------------------------------------------------------------
\* the policy the command byte is checked with: TBug11 passes
\* TALKER_ECHO_VERIFY_COM, Tru11 passes arg_verify_echo = true
HandshakePolicy ==
  IF prog = "TBug11" THEN "TALKER_ECHO_VERIFY_COM" ELSE "TALKER_ECHO_VERIFY"

\* the reply to command byte b that passes the check of the program
HandshakeReply(b) == IF prog = "TBug11" THEN Compl(b) ELSE b

CommandBytes ==
  {TALKER_READ_CMD, TRU11_TALKER_WRITE_CMD, TALKER_WRITE_EE_CMD, TALKER_WRITE_E_CMD,
   TALKER_WRITE_E20_CMD, TBUG11_TALKER_WRITE_CMD}

\* entry i is the call that transmits the three parameter bytes
ParamsCall(i) == log[i] = Ev("call", "tx_chunk", 3, 0, 0)

\* the one-byte transfer of the command byte returned and the parameters
\* are what the operation sends next
ParamsNext ==
  /\ pc = "run"
  /\ call.fn = "none"
  /\ todo # <<>>
  /\ Head(todo).op = "tx_chunk"
  /\ Head(todo).len = 3

\* entry i is the check of the reply to a command byte
CommandCheck(i) ==
  /\ log[i].ev = "check"
  /\ log[i].fn = "txrx_chunk"
  /\ log[i].p = HandshakePolicy
  /\ log[i].b = 1

\* ------------------------------------------------------------------------
\* C11 (as amended): in every memory read and write of both programs the
\* command byte is sent as a one-byte txrx_chunk and the three parameter
\* bytes are transmitted only after the reply passed the check of the
\* program: the bitwise complement of the command byte in TBug11, the
\* command byte itself in Tru11. A reply that fails the check ends the run
\* with the echo error, no parameter byte having been sent.
\* ------------------------------------------------------------------------
C11_CommandHandshake ==
  /\ \A i \in Recent :
       /\ ParamsCall(i) =>
            /\ i >= 6
            /\ log[i - 5] = Ev("call", "txrx_chunk", 1, 0, 0)
            /\ log[i - 4] = Ev("write", "txrx_chunk", 0, 1, 1)
            /\ log[i - 3] = Ev("read", "txrx_chunk", 0, 1, 1)
            /\ log[i - 2] = Chk("txrx_chunk", HandshakePolicy, 0, 1, -1)
            /\ log[i - 1] = Ev("ret", "txrx_chunk", 1, 0, 0)
       /\ (CommandCheck(i) /\ log[i].c >= 0) =>
            /\ Aborted(i, "APP_ERROR_ECHO_ID")
            /\ log[i - 2] = Ev("write", "txrx_chunk", 0, 1, 1)
            /\ rxbuf # <<HandshakeReply(wire[Len(wire)])>>
            /\ todo = <<>>
  /\ ParamsNext =>
       /\ wire[Len(wire)] \in CommandBytes
       /\ rxbuf = <<HandshakeReply(wire[Len(wire)])>>
       /\ log[Len(log)] = Ev("ret", "txrx_chunk", 1, 0, 0)

\* Tru11 is about to send the parameters of a read command
C11_Witness ==
  /\ prog = "Tru11"
  /\ params.cmd = "CMD_READ"
  /\ ParamsNext
  /\ wire[Len(wire)] = TALKER_READ_CMD
  /\ rxbuf = <<TALKER_READ_CMD>>

\* C11 as stated: the reply that lets the parameters through is the
\* complement of the command byte in both programs
C11_Original ==
  ParamsNext => rxbuf = <<Compl(wire[Len(wire)])>>

\* ------------------------------------------------------------------------
\* Reading the frames of the memory commands
\* ------------------------------------------------------------------------
\* the transfer that follows the parameters of a command was just entered
PayloadEntered ==
  /\ call.fn \in {"rx_chunk", "txrx_chunk", "txrx_chunk_write"}
  /\ ~(call.fn = "txrx_chunk" /\ call.echo = HandshakePolicy)
  /\ log[Len(log)] = Ev("call", call.fn, call.len, 0, 0)

\* that transfer receives the payload of a read
ReadCall ==
  \/ call.fn = "rx_chunk"
  \/ call.fn = "txrx_chunk" /\ call.echo = "TALKER_ECHO_IGNORE"

\* the last four bytes on the wire
Header(k) == wire[Len(wire) - 4 + k]

\* the write_port calls that move the three parameter bytes
ParamWrites == CeilDiv(3, Min(3, params.serial_txbuf_size))

\* the entry made when the operation began the command whose payload
\* transfer was just entered: address in a, payload length in b
FrameEvent == log[Len(log) - 8 - ParamWrites]

\* the transfer of n > 0 bytes that receives the payload of a read returned
ReadPayloadReturned ==
  /\ Returned
  /\ log[Len(log)].a > 0
  /\ \/ log[Len(log)].fn = "rx_chunk"
     \/ /\ log[Len(log)].fn = "txrx_chunk"
        /\ log[Len(log) - 1].ev = "check"
        /\ log[Len(log) - 1].p = "TALKER_ECHO_IGNORE"

\* the transfer of n > 0 bytes that carries the payload of a write returned
WritePayloadReturned ==
  /\ Returned
  /\ log[Len(log)].a > 0
  /\ \/ log[Len(log)].fn = "txrx_chunk_write"
     \/ /\ log[Len(log)].fn = "txrx_chunk"
        /\ log[Len(log) - 1].ev = "check"
        /\ log[Len(log) - 1].p \notin {HandshakePolicy, "TALKER_ECHO_IGNORE"}

\* the four bytes that sit on the wire before the last h bytes are a header
\* announcing n bytes
HeaderBefore(h, n, cmds) ==
  /\ Len(wire) >= h + 4
  /\ wire[Len(wire) - h - 3] \in cmds
  /\ wire[Len(wire) - h - 2] = n % 256

\* ------------------------------------------------------------------------
\* C12 (as amended): every memory command puts on the wire, in this order,
\* one command byte, one length byte equal to the payload length modulo 256,
\* the high and the low byte of the address. On a write exactly that many
\* payload bytes follow. On a read Tru11 sends nothing more; TBug11 then
\* transmits as many bytes as it is about to receive, taken from the start
\* of its transmit buffer, so that the first of them is the length byte again.
\* ------------------------------------------------------------------------
C12_FrameLayout ==
  /\ PayloadEntered =>
       /\ Len(wire) >= 4
       /\ Header(1) \in CommandBytes
       /\ Header(2) = call.len % 256
       /\ ReadCall <=> Header(1) = TALKER_READ_CMD
       /\ ReadCall => 256 * Header(3) + Header(4) = call.addr
       /\ (/\ FrameEvent.ev \in {"command", "line"}
           /\ FrameEvent.fn \in {"readmem", "readmem_verify", "writemem_file", "writemem_hexstr"}) =>
            /\ 256 * Header(3) + Header(4) = FrameEvent.a
            /\ Header(2) = FrameEvent.b % 256
            /\ FrameEvent.fn \in {"readmem", "readmem_verify"} <=> Header(1) = TALKER_READ_CMD
  /\ WritePayloadReturned =>
       HeaderBefore(log[Len(log)].a, log[Len(log)].a, CommandBytes \ {TALKER_READ_CMD})
  /\ (ReadPayloadReturned /\ prog = "Tru11") =>
       HeaderBefore(0, log[Len(log)].a, {TALKER_READ_CMD})
  /\ (ReadPayloadReturned /\ prog = "TBug11") =>
       /\ HeaderBefore(log[Len(log)].a, log[Len(log)].a, {TALKER_READ_CMD})
       /\ wire[Len(wire) - log[Len(log)].a + 1] = log[Len(log)].a % 256
       /\ log[Len(log) - 3].ev = "write"

\* TBug11 received the three bytes of a read it had sent three bytes for
C12_Witness ==
  /\ prog = "TBug11"
  /\ params.cmd = "CMD_READ"
  /\ ReadPayloadReturned
  /\ log[Len(log)].a = 3
  /\ HeaderBefore(3, 3, {TALKER_READ_CMD})
  /\ Len(wire) = 7

\* C12 as stated: on a read the header is the last thing the host sends
C12_Original ==
  ReadPayloadReturned =>
    /\ HeaderBefore(0, log[Len(log)].a, {TALKER_READ_CMD})
    /\ log[Len(log) - 3].ev # "write"

\* the transfer that returned last carried the command byte
CommandReturned ==
  /\ Returned
  /\ log[Len(log)].fn = "txrx_chunk"
  /\ log[Len(log) - 1].ev = "check"
  /\ log[Len(log) - 1].p = HandshakePolicy

\* read-to-file or verify-against-file: the transfer that receives the
\* payload of a read command returned
ReadCommandDone ==
  /\ params.cmd \in {"CMD_READ", "CMD_READ_VERIFY"}
  /\ Returned
  /\ log[Len(log)].fn \in {"rx_chunk", "txrx_chunk"}
  /\ ~CommandReturned

\* the count a length byte stands for in the talker
EncodedCount(b) == IF b = 0 THEN TALKER_MAX_BYTE_COUNT ELSE b

\* the bytes that arrived in the receive buffer
Received == Cardinality({i \in 1..Len(rxbuf) : rxbuf[i] >= 0})

\* the length byte of the command whose payload transfer returned: TBug11
\* has sent as many bytes as it received since
LengthByte ==
  wire[Len(wire) - 2 - (IF log[Len(log)].fn = "txrx_chunk" THEN log[Len(log)].a ELSE 0)]

\* ------------------------------------------------------------------------
\* C13: for every read command of read-to-file and of verify-against-file
\* the payload length lies in 1..256 and the host receives as many payload
\* bytes as the length byte sent encodes, 0 standing for 256.
\* ------------------------------------------------------------------------
C13_ReadLength ==
  ReadCommandDone =>
    /\ log[Len(log)].a \in 1..TALKER_MAX_BYTE_COUNT
    /\ Received = EncodedCount(LengthByte)

\* the read commands readmem began so far, in order
ReadCommands == SelectSeq(log, LAMBDA e : e.ev = "command" /\ e.fn = "readmem")

\* N, the number of bytes of the region asked for
RegionBytes == params.to_addr - params.from_addr + 1

\* ------------------------------------------------------------------------
\* C14: read-to-file over a region of N = to_addr - from_addr + 1 bytes
\* issues exactly ceil(N/256) read commands; the k-th (k = 0, 1, ...) carries
\* the address (from_addr + 256*k) mod 65536 and the length
\* min(256, N - 256*k), whatever the transport chunk sizes are. The header
\* on the wire carries that address and that length modulo 256, and the
\* payload transfer is called with that length.
\* ------------------------------------------------------------------------
C14_ReadCommands ==
  /\ (/\ params.cmd = "CMD_READ"
      /\ Len(log) > 0
      /\ log[Len(log)].fn = "readmem"
      /\ log[Len(log)].ev \in {"command", "done"}) =>
       /\ \A k \in 0..(Len(ReadCommands) - 1) :
            /\ ReadCommands[k + 1].a = (params.from_addr + TALKER_MAX_BYTE_COUNT * k) % 65536
            /\ ReadCommands[k + 1].b =
                 Min(TALKER_MAX_BYTE_COUNT, RegionBytes - TALKER_MAX_BYTE_COUNT * k)
       /\ Len(ReadCommands) <= CeilDiv(RegionBytes, TALKER_MAX_BYTE_COUNT)
       /\ log[Len(log)].ev = "done" =>
            Len(ReadCommands) = CeilDiv(RegionBytes, TALKER_MAX_BYTE_COUNT)
  /\ (params.cmd = "CMD_READ" /\ PayloadEntered) =>
       /\ FrameEvent.ev = "command"
       /\ Header(1) = TALKER_READ_CMD
       /\ Header(2) = FrameEvent.b % 256
       /\ Header(3) = FrameEvent.a \div 256
       /\ Header(4) = FrameEvent.a % 256
       /\ call.len = FrameEvent.b
  /\ (params.cmd = "CMD_READ" /\ pc = "done" /\ err.id = "none") =>
       log[Len(log)] = Ev("done", "readmem", 0, 0, 0)

\* a region of 257 bytes that crosses 0xFFFF was read with one-byte
\* transport chunks: two commands, the second at address 0x0000
C14_Witness ==
  /\ params.cmd = "CMD_READ"
  /\ params.serial_txbuf_size = 1
  /\ params.serial_rxbuf_size = 1
  /\ RegionBytes = TALKER_MAX_BYTE_COUNT + 1
  /\ pc = "done"
  /\ err.id = "none"
  /\ Len(ReadCommands) = 2
  /\ ReadCommands[2].a = 0
  /\ ReadCommands[2].b = 1

\* the run of the scenario of ScenarioRegion and ScenarioChunk ended well
ScenarioDone ==
  /\ params.cmd = "CMD_READ"
  /\ params.from_addr = ScenarioRegion[1]
  /\ params.to_addr = ScenarioRegion[2]
  /\ params.serial_txbuf_size = ScenarioChunk
  /\ params.serial_rxbuf_size = ScenarioChunk
  /\ params.srec_datalen = DEFAULT_SREC_DATALEN
  /\ pc = "done"
  /\ err.id = "none"

\* the read_port calls that received the payload of a read command
PayloadReads == SelectSeq(log, LAMBDA e : e.ev = "read" /\ e.fn = "rx_chunk")

\* the file written by the scenario: S0, one S1 record with byte count 0x13
\* at address 0x0000, S9
ScenarioFile ==
  /\ Len(out_file) = 3
  /\ out_file[1] = S0Line
  /\ Substr(out_file[2], 0, 8) = <<"S", "1", "1", "3", "0", "0", "0", "0">>
  /\ Len(out_file[2]) = 8 + 2 * DEFAULT_SREC_DATALEN + 2
  /\ out_file[3] = S9Line

\* ------------------------------------------------------------------------
\* C15 (as amended): reading 0x0000-0x000F (16 bytes) with transport buffers
\* of 8 bytes issues exactly one read command, of length 16, whose payload
\* arrives in two transport reads of 8 bytes, and writes exactly one S1
\* record, whose byte-count field is 0x13, with the default 16 data bytes
\* per line.
\* ------------------------------------------------------------------------
C15_SixteenBytes ==
  ScenarioDone =>
    /\ Len(ReadCommands) = 1
    /\ ReadCommands[1].a = 0
    /\ ReadCommands[1].b = 2 * ScenarioChunk
    /\ Len(PayloadReads) = 2
    /\ \A i \in 1..2 : PayloadReads[i].b = ScenarioChunk /\ PayloadReads[i].c = ScenarioChunk
    /\ ScenarioFile

C15_Witness ==
  /\ ScenarioDone
  /\ Len(wire) = 4
  /\ Len(PayloadReads) = 2
  /\ ScenarioFile

\* C15 as the specification states it: two protocol read commands and one
\* S1 record with byte count 0x13
C15_Original ==
  ScenarioDone => (Len(ReadCommands) = 2 /\ ScenarioFile)

\* L, the data bytes per line asked for
LineBytes == params.srec_datalen

\* the loop of readmem is at its head: done bytes were read and encoded
ReadmemAtHead ==
  /\ params.cmd = "CMD_READ"
  /\ pc = "run"
  /\ call.fn = "none"
  /\ todo # <<>>
  /\ Head(todo).op = "readmem_loop"

\* readmem returned and the program ended well
ReadmemDone ==
  /\ params.cmd = "CMD_READ"
  /\ pc = "done"
  /\ err.id = "none"

\* the line rec is an S1 record at address a with n data bytes
IsRecord(rec, a, n) ==
  /\ Len(rec) = 8 + 2 * n + 2
  /\ Substr(rec, 0, 2) = <<"S", "1">>
  /\ \A i \in 1..Len(rec) : rec[i] \in {HexChars[h] : h \in 1..16} \cup {"S"}
  /\ Strtoul(Substr(rec, 2, 2), 0) = n + SREC_ADDR_CHECKSUM_COUNT
  /\ Strtoul(Substr(rec, 4, 4), 0) = a

\* byte i (from 0) of the region as the file holds it, once its record is written
FileByte(i) == Strtoul(Substr(out_file[(i \div LineBytes) + 2], 8 + 2 * (i % LineBytes), 2), 0)

\* byte i of the region as the record being built holds it
PendingByte(i) == Strtoul(Substr(srec.srec_line, 2 * (i % LineBytes), 2), 0)

\* ------------------------------------------------------------------------
\* C16: a read-to-file of N bytes with L data bytes per line that completed
\* wrote exactly one S0 line, then ceil(N/L) S1 records in ascending order,
\* record j at address (from_addr + L*j) mod 65536 with a byte-count field of
\* its data length + 3 and L data bytes (fewer only in the last record),
\* then one S9 line; the data of the records, one after the other, are the
\* bytes received from the device in the order they arrived. While the
\* region is being read the file holds the S0 line and the complete records
\* of the bytes read so far, and the bytes of the chunk just received are
\* the last ones encoded.
\* ------------------------------------------------------------------------
C16_FileWritten ==
  /\ ReadmemAtHead =>
       LET done == RegionBytes - Head(todo).len
           cl == log[Len(log)].a
       IN /\ out_file[1] = S0Line
          /\ Len(out_file) = 1 + (done \div LineBytes)
          /\ srec.datacount = done % LineBytes
          /\ Len(srec.srec_line) = 2 * (done % LineBytes)
          /\ \A j \in 0..((done \div LineBytes) - 1) :
               IsRecord(out_file[j + 2], (params.from_addr + LineBytes * j) % 65536, LineBytes)
          /\ done > 0 =>
               /\ Returned
               /\ Len(rxbuf) = cl
               /\ \A i \in 0..(cl - 1) :
                    rxbuf[i + 1] = IF (done - cl + i) \div LineBytes < done \div LineBytes
                                     THEN FileByte(done - cl + i)
                                     ELSE PendingByte(done - cl + i)
  /\ ReadmemDone =>
       LET records == CeilDiv(RegionBytes, LineBytes)
           cl == Len(rxbuf)
       IN /\ Len(out_file) = records + 2
          /\ out_file[1] = S0Line
          /\ out_file[records + 2] = S9Line
          /\ \A j \in 0..(records - 1) :
               IsRecord(out_file[j + 2], (params.from_addr + LineBytes * j) % 65536,
                        Min(LineBytes, RegionBytes - LineBytes * j))
          /\ cl = ReadCommands[Len(ReadCommands)].b
          /\ \A i \in 0..(cl - 1) : rxbuf[i + 1] = FileByte(RegionBytes - cl + i)

\* 257 bytes from 0xFF00 were read with 16 bytes per line: 17 records, the
\* last one short and at address 0x0000
C16_Witness ==
  /\ ReadmemDone
  /\ RegionBytes = TALKER_MAX_BYTE_COUNT + 1
  /\ LineBytes = DEFAULT_SREC_DATALEN
  /\ Len(out_file) = 19
  /\ IsRecord(out_file[18], 0, 1)
  /\ IsRecord(out_file[17], 65520, DEFAULT_SREC_DATALEN)

\* the bytes an S-record line spells after its two-character tag: byte
\* count, address, data and checksum
RecordBytes(rec) ==
  [i \in 1..((Len(rec) - 2) \div 2) |-> Strtoul(Substr(rec, 2 * i, 2), 0)]

\* (byte_count + addr_hi + addr_lo + sum(data) + checksum) mod 256
RecordSum(rec) == SumRange(RecordBytes(rec), 1, Len(RecordBytes(rec))) % 256

\* the S1 records the file holds
FileRecords == {j \in 1..Len(out_file) : Substr(out_file[j], 0, 2) = <<"S", "1">>}

\* ------------------------------------------------------------------------
\* C17: for every S1 record read-to-file has written, the records whose
\* addresses cross 0xFFFF and the final short record included,
\* (byte_count + addr_hi + addr_lo + sum(data) + checksum) mod 256 = 0xFF.
\* ------------------------------------------------------------------------
C17_RecordChecksum ==
  (ReadmemAtHead \/ ReadmemDone) =>
    \A j \in FileRecords :
      /\ Len(out_file[j]) % 2 = 0
      /\ RecordSum(out_file[j]) = 255

\* 257 bytes from 0xFF00 with 3 bytes per line: the last record is short,
\* starts at 0xFFFF and ends at 0x0000
C17_Witness ==
  /\ ReadmemDone
  /\ LineBytes = 3
  /\ Len(out_file) = 88
  /\ IsRecord(out_file[87], 65535, 2)
  /\ IsRecord(out_file[86], 65532, 3)
  /\ RecordSum(out_file[87]) = 255

\* the files read-to-file writes for the regions of FileRegions
ProducedFile(r) == RecordsOf(r[1], DeviceData(r[1], r[2]))

\* a verify of such a file is running or has run
VerifyingProduced(r) ==
  /\ params.cmd = "CMD_READ_VERIFY"
  /\ in_file = ProducedFile(r)

\* the entries the comparisons of verify left in the log
Compared == SelectSeq(log, LAMBDA e : e.ev = "compared" /\ e.fn = "verify_data")

\* the bytes of rxbuf, read at address a, that differ from what the device
\* held when the file was made, the CONFIG register left out when it is ignored
Changed(a) ==
  {i \in 0..(Len(rxbuf) - 1) :
     /\ rxbuf[i + 1] # DeviceByte((a + i) % 65536)
     /\ params.verify_config \/ (a + i) % 65536 # HC11_CONFIG_ADDR}

\* ------------------------------------------------------------------------
\* C18: the S1 lines read-to-file writes are decoded by the reader of
\* verify and write-from-file to the address and the data they were made
\* from: each is accepted, none is too short for its count, its address and
\* count come back, and its data bytes are the bytes received. Verifying a
\* file read-to-file produced reads, record by record, the addresses and
\* lengths the records were written for, counts as mismatches of a record
\* exactly the bytes in which the device differs from what it held, and so
\* reports zero mismatches when the device memory is unchanged.
\* ------------------------------------------------------------------------
C18_RoundTrip ==
  /\ (ReadmemAtHead \/ ReadmemDone) =>
       \A j \in FileRecords :
         LET rec == out_file[j]
             n == Min(LineBytes, RegionBytes - LineBytes * (j - 2))
         IN /\ line_accepted(rec)
            /\ srec_addr(rec) = (params.from_addr + LineBytes * (j - 2)) % 65536
            /\ srec_datacount(rec) = n
            /\ first_throw(rec, n) = n
  /\ ReadmemDone =>
       \A i \in 0..(Len(rxbuf) - 1) :
         LET k == RegionBytes - Len(rxbuf) + i
         IN file_byte(out_file[(k \div LineBytes) + 2], k % LineBytes) = rxbuf[i + 1]
  /\ \A r \in FileRegions :
       (VerifyingProduced(r) /\ Len(log) > 0) =>
         LET e == log[Len(log)]
         IN /\ (e.ev = "line") =>
                 /\ e.a = (r[1] + LineBytes * (e.c - 2)) % 65536
                 /\ e.b = Min(LineBytes, r[2] - LineBytes * (e.c - 2))
            /\ (e.ev = "compared") =>
                 LET line_str == in_file[Head(todo).len - 1]
                 IN /\ e.a = srec_datacount(line_str)
                    /\ e.b = Cardinality(Changed(srec_addr(line_str)))
            /\ (e.ev = "summary") =>
                 /\ e.a = r[2]
                 /\ e.b = SumRange([i \in 1..Len(Compared) |-> Compared[i].b], 1, Len(Compared))

\* the image of the four bytes from 0xFFFE, a record that crosses 0xFFFF,
\* was verified against the unchanged device: four bytes, no mismatch
C18_Witness ==
  /\ VerifyingProduced(<<65534, 4>>)
  /\ Len(log) > 0
  /\ log[Len(log)] = Ev("summary", "readmem_verify", 4, 0, 0)
  /\ Len(Compared) = 1
  /\ rxbuf = DeviceData(65534, 4)

\* a line the readers of S-record files leave out: shorter than 8
\* characters, or not beginning with the tag S1
RejectedLine(line_str) == Len(line_str) < 8 \/ Substr(line_str, 0, 2) # <<"S", "1">>

\* the loop over the lines of the file is about to take such a line
AtRejectedLine ==
  /\ pc = "run"
  /\ call.fn = "none"
  /\ todo # <<>>
  /\ Head(todo).op \in FileOps
  /\ Head(todo).len \in 1..Len(in_file)
  /\ RejectedLine(in_file[Head(todo).len])

\* the transfer of the talker image was just entered
ImageEntered ==
  /\ call.fn = "txrx_chunk_control_program"
  /\ log[Len(log)].ev = "call"

\* the talker file without the lines that are left out
KeptLines == SelectSeq(TalkerFile(talker_file), LAMBDA l : ~RejectedLine(l))

\* ------------------------------------------------------------------------
\* C19: in verify-against-file, write-from-file and the bulk programming
\* loops a line shorter than 8 characters or not beginning with S1 is passed
\* over in one step that sends and receives nothing, counts no data byte and
\* goes on to the next line; the image the bootstrap loader sends is the one
\* it would send for the file without such lines.
\* ------------------------------------------------------------------------
C19_RejectedLines ==
  /\ [][AtRejectedLine =>
          /\ wire' = wire
          /\ rxbuf' = rxbuf
          /\ call' = call
          /\ tally' = tally
          /\ pc' = pc
          /\ err' = err
          /\ todo' = <<[Head(todo) EXCEPT !.len = @ + 1]>> \o Tail(todo)]_vars
  /\ [](ImageEntered =>
          /\ Len(KeptLines) < Len(TalkerFile(talker_file))
          /\ LoadTalker(KeptLines).err = "none"
          /\ call.buf = LoadTalker(KeptLines).buf)

\* write-from-file passed over the S1 line of seven characters of MixedFile
C19_Witness ==
  /\ in_file = MixedFile
  /\ Len(in_file[4]) = 7
  /\ Substr(in_file[4], 0, 2) = <<"S", "1">>
  /\ Len(log) > 0
  /\ log[Len(log)] = Ev("skip", "writemem_file", 4, 0, 0)
  /\ Head(todo).len = 5

\* the byte-count field of the line the entry e of the log is about
ByteCountField(e) == Strtoul(Substr(in_file[e.c], 2, 2), 0)

\* ------------------------------------------------------------------------
\* C20: for every S1 line verify-against-file or write-from-file takes, the
\* number of data bytes taken from the line and used as the length of the
\* command is byte_count - 3 and lies in 0..252; a byte count below 3 never
\* gives a data count of 253..255.
\* ------------------------------------------------------------------------
C20_DataCount ==
  /\ (/\ Len(log) > 0
      /\ log[Len(log)].ev = "line"
      /\ log[Len(log)].fn \in {"readmem_verify", "writemem_file"}) =>
       /\ log[Len(log)].b = ByteCountField(log[Len(log)]) - SREC_ADDR_CHECKSUM_COUNT
       /\ log[Len(log)].b \in 0..(255 - SREC_ADDR_CHECKSUM_COUNT)
  /\ (params.cmd \in {"CMD_READ_VERIFY", "CMD_WRITE"} /\ PayloadEntered) =>
       call.len \in 0..(255 - SREC_ADDR_CHECKSUM_COUNT)

\* the number of data bytes an S1 line announces: its byte count less the
\* address and the checksum
RecordDataLen(line_str) == Strtoul(Substr(line_str, 2, 2), 0) - SREC_ADDR_CHECKSUM_COUNT

\* verify-against-file entered the transfer that receives the bytes of a line
VerifyReadEntered ==
  /\ params.cmd = "CMD_READ_VERIFY"
  /\ PayloadEntered

\* verify-against-file compared the bytes of a line
VerifyCompared ==
  /\ params.cmd = "CMD_READ_VERIFY"
  /\ Len(log) > 0
  /\ log[Len(log)].ev = "compared"

\* ------------------------------------------------------------------------
\* C21: verify-against-file issues for each S1 record, in file order, one
\* read command that carries the address and the data length of the record,
\* and compares received byte i with data byte i of the record for every i;
\* it reads no address that no record covers.
\* ------------------------------------------------------------------------
C21_VerifyReads ==
  /\ VerifyReadEntered =>
       LET line_str == in_file[FrameEvent.c]
       IN /\ FrameEvent.ev = "line"
          /\ Header(1) = TALKER_READ_CMD
          /\ Header(3) * 256 + Header(4) = Strtoul(Substr(line_str, 4, 4), 0)
          /\ call.len = RecordDataLen(line_str)
          /\ Header(2) = call.len % 256
          /\ 8 + 2 * call.len + 2 <= Len(line_str)
  /\ VerifyCompared =>
       LET e == log[Len(log)]
           line_str == in_file[Head(todo).len - 1]
       IN /\ e.c = 0
          /\ e.b = Cardinality({i \in 0..(e.a - 1) : rxbuf[i + 1] # file_byte(line_str, i)})

\* the operations that count mismatches instead of raising an error:
\* verify-against-file in both programs, write-from-file in Tru11
CountingRun ==
  \/ params.cmd = "CMD_READ_VERIFY"
  \/ /\ prog = "Tru11"
     /\ params.cmd \in {"CMD_WRITE", "CMD_WRITE_EE", "CMD_WRITE_E", "CMD_WRITE_E20"}
     /\ prog_prompt_write(params.answer)

\* the entries of the lines taken, of the comparisons made, of the summaries
LinesTaken == SelectSeq(log, LAMBDA e : e.ev = "line")

Comparisons == SelectSeq(log, LAMBDA e : e.ev = "compared")

Summaries == SelectSeq(log, LAMBDA e : e.ev = "summary")

\* the lines of the file the operation takes
AcceptedLines == {i \in 1..Len(in_file) : line_accepted(in_file[i])}

\* the mismatches counted line by line
SessionMismatches == SumRange([i \in 1..Len(Comparisons) |-> Comparisons[i].b], 1, Len(Comparisons))

\* ------------------------------------------------------------------------
\* C22: a byte mismatch found by verify-against-file, or by the
\* verification of write-from-file in Tru11, never aborts the operation:
\* after a line was compared, whatever the number of its mismatches, the
\* loop goes on with the next line; when the summary is reached every S1
\* line was processed, the verdict is PASSED iff the mismatches of the
\* session are zero and FAILED otherwise, and the program then ends with
\* exit status 0 in both cases.
\* ------------------------------------------------------------------------
C22_MismatchNotFatal ==
  /\ (CountingRun /\ Len(log) > 0 /\ log[Len(log)].ev = "compared") =>
       /\ pc = "run"
       /\ err.id = "none"
       /\ todo # <<>>
       /\ Head(todo).op \in FileOps
       /\ Head(todo).len = LinesTaken[Len(LinesTaken)].c + 1
       /\ tally.mismatch = SessionMismatches
  /\ (CountingRun /\ Len(log) > 0 /\ log[Len(log)].ev = "summary") =>
       /\ Len(LinesTaken) = Cardinality(AcceptedLines)
       /\ Len(Comparisons) = Len(LinesTaken)
       /\ log[Len(log)].b = SessionMismatches
       /\ verdict(tally) = (IF SessionMismatches = 0 THEN "PASSED" ELSE "FAILED")
       /\ pc \in {"run", "done"}
       /\ err.id = "none"
       /\ todo = <<>>
  /\ (CountingRun /\ pc = "done" /\ Len(log) > 0 /\ log[Len(log)].ev = "summary") =>
       /\ exit_code = 0
       /\ err.id = "none"

\* a verify of MixedFile ended with mismatches in the first record and in
\* the second: FAILED, exit status 0
C22_Witness ==
  /\ params.cmd = "CMD_READ_VERIFY"
  /\ in_file = MixedFile
  /\ pc = "done"
  /\ exit_code = 0
  /\ Len(Comparisons) = 2
  /\ Comparisons[1].b > 0
  /\ Comparisons[2].b > 0
  /\ verdict(tally) = "FAILED"

\* the line whose bytes were compared last
ComparedLine == in_file[LinesTaken[Len(LinesTaken)].c]

\* the offsets of that line that sit at the CONFIG register
AtConfig ==
  {i \in 0..(srec_datacount(ComparedLine) - 1) :
     (srec_addr(ComparedLine) + i) % 65536 = HC11_CONFIG_ADDR}

\* the offsets of that line at which the device returned another byte than
\* the line holds
Differing ==
  {i \in 0..(srec_datacount(ComparedLine) - 1) : rxbuf[i + 1] # file_byte(ComparedLine, i)}

\* the lines taken whose data covers the CONFIG register
CoveringLines ==
  {j \in AcceptedLines :
     \E i \in 0..(srec_datacount(in_file[j]) - 1) :
       (srec_addr(in_file[j]) + i) % 65536 = HC11_CONFIG_ADDR}

\* ------------------------------------------------------------------------
\* C23: with verify_config = false every byte of a record that sits at
\* 0x103F is counted as ignored and never as mismatched, whatever the device
\* returned, so that the summary of a file with a line covering 0x103F has
\* an ignored tally of at least 1; with verify_config = true that byte is
\* compared like any other and no byte is ever counted as ignored.
\* ------------------------------------------------------------------------
C23_ConfigIgnored ==
  /\ (CountingRun /\ Len(log) > 0 /\ log[Len(log)].ev = "compared") =>
       IF params.verify_config
         THEN /\ log[Len(log)].c = 0
              /\ log[Len(log)].b = Cardinality(Differing)
         ELSE /\ log[Len(log)].c = Cardinality(AtConfig)
              /\ log[Len(log)].b = Cardinality(Differing \ AtConfig)
  /\ (CountingRun /\ Len(log) > 0 /\ log[Len(log)].ev = "summary") =>
       IF params.verify_config
         THEN log[Len(log)].c = 0
         ELSE /\ log[Len(log)].c = Cardinality(CoveringLines)
              /\ CoveringLines # {} => log[Len(log)].c >= 1
  /\ (CountingRun /\ params.verify_config) => tally.ignore = 0

\* MixedFile was verified with verify_config = false: the device returned at
\* 0x103F another byte than the record holds and the record's other bytes as
\* the record holds them; the record has one byte ignored, none mismatched
C23_Witness ==
  /\ params.cmd = "CMD_READ_VERIFY"
  /\ ~params.verify_config
  /\ in_file = MixedFile
  /\ Len(log) > 0
  /\ log[Len(log)].ev = "summary"
  /\ log[Len(log)].c = 1
  /\ AtConfig = {1}
  /\ Differing = {1}
  /\ Comparisons[Len(Comparisons)].b = 0
  /\ Comparisons[Len(Comparisons)].c = 1

\* write-from-file entered the transfer that carries the payload of a line
FileWriteEntered ==
  /\ params.cmd = "CMD_WRITE"
  /\ PayloadEntered
  /\ FrameEvent.ev = "line"
  /\ FrameEvent.fn = "writemem_file"

\* ------------------------------------------------------------------------
\* C24: write-from-file transmits for each S1 record, after the parameters
\* of the write command, exactly the data bytes of the record, in order, as
\* many as the length byte sent, at the address of the record; in TBug11
\* and in Tru11.
\* ------------------------------------------------------------------------
C24_FilePayload ==
  FileWriteEntered =>
    LET line_str == in_file[FrameEvent.c]
    IN /\ Header(1) \in {TRU11_TALKER_WRITE_CMD, TBUG11_TALKER_WRITE_CMD}
       /\ Header(2) = call.len % 256
       /\ Header(3) * 256 + Header(4) = Strtoul(Substr(line_str, 4, 4), 0)
       /\ call.len = RecordDataLen(line_str)
       /\ \A i \in 1..call.len : call.buf[i] = file_byte(line_str, i - 1)

\* the write commands writemem_hexstr began so far, in order
WriteCommands == SelectSeq(log, LAMBDA e : e.ev = "command" /\ e.fn = "writemem_hexstr")

\* N, the number of bytes the hex string holds
HexBytes == Len(hex_data) \div 2

\* ------------------------------------------------------------------------
\* C25: write-from-hex-string of N >= 1 bytes ends after exactly
\* ceil(N/256) write commands; each has the payload length
\* min(256, remaining), the lengths add up to N and payload byte k goes to
\* address (from_addr + k) mod 65536; for every N, N >= 256 included.
\* ------------------------------------------------------------------------
C25_HexCommands ==
  /\ (/\ params.cmd = "CMD_WRITEHEXSTR"
      /\ Len(log) > 0
      /\ log[Len(log)].ev = "command") =>
       /\ Len(WriteCommands) <= CeilDiv(HexBytes, TALKER_MAX_BYTE_COUNT)
       /\ \A k \in 0..(Len(WriteCommands) - 1) :
            /\ WriteCommands[k + 1].c = HexBytes - TALKER_MAX_BYTE_COUNT * k
            /\ WriteCommands[k + 1].b = Min(TALKER_MAX_BYTE_COUNT, WriteCommands[k + 1].c)
            /\ WriteCommands[k + 1].a = (params.from_addr + TALKER_MAX_BYTE_COUNT * k) % 65536
  /\ (params.cmd = "CMD_WRITEHEXSTR" /\ PayloadEntered) =>
       /\ call.len = FrameEvent.b
       /\ call.len >= 1
       /\ Header(3) * 256 + Header(4) = FrameEvent.a
       /\ \A i \in 1..call.len :
            call.buf[i] = Strtoul(Substr(hex_data, 2 * (HexBytes - FrameEvent.c + i - 1), 2), 0)
  /\ (params.cmd = "CMD_WRITEHEXSTR" /\ pc = "done" /\ err.id = "none" /\ HexBytes >= 1) =>
       Len(WriteCommands) = CeilDiv(HexBytes, TALKER_MAX_BYTE_COUNT)

\* a write-from-hex-string of Tru11, whose payload transfer checks no echo,
\* ended well
HexWritten ==
  /\ prog = "Tru11"
  /\ params.cmd = "CMD_WRITEHEXSTR"
  /\ HexBytes \in 1..(TALKER_MAX_BYTE_COUNT - 1)
  /\ pc = "done"
  /\ err.id = "none"

\* the bytes read back that differ from the bytes written
ReadbackDiffers ==
  {i \in 1..HexBytes : rxbuf[i] # Strtoul(Substr(hex_data, 2 * (i - 1), 2), 0)}

\* ------------------------------------------------------------------------
\* C26: write-from-hex-string with a write whose echo is not verified reads
\* the written bytes back and reports a summary of matched, mismatched and
\* ignored bytes; writing "AB" at 0x0010 to a device that returns 0xAB
\* gives the summary of one byte matched.
\* ------------------------------------------------------------------------
C26_HexReadback ==
  HexWritten =>
    /\ Len(rxbuf) = HexBytes
    /\ Len(Summaries) = 1
    /\ Summaries[1].a = HexBytes
    /\ Summaries[1].b = Cardinality(ReadbackDiffers)

\* ------------------------------------------------------------------------
\* The EEPROM operations
\* ------------------------------------------------------------------------
\* the bytes writemem_byte puts on the line: command, count, address, value
MemWrite(a, v) == <<65, 1, a \div 256, a % 256, v>>

\* the address and the byte the function called on its own was given
OpAddress == params.from_addr

OpByte == params.data[1]

\* four memory writes: c1 and c2 to 0x103B around the store, then 0x00
LatchSequence(c1, c2) ==
  MemWrite(4155, c1) \o MemWrite(OpAddress, OpByte) \o MemWrite(4155, c2) \o MemWrite(4155, 0)

EepromControls ==
  [eeprom_prog_byte |-> <<2, 3>>, eeprom_bulk_erase |-> <<6, 7>>,
   eeprom_row_erase |-> <<14, 15>>, eeprom_byte_erase |-> <<22, 23>>]

IsPrefix(s, t) == Len(s) <= Len(t) /\ SubSeq(t, 1, Len(s)) = s

OpSucceeded == pc = "done" /\ exit_code = 0

\* the memory writes completed so far: value transfers that returned
ValueCalls ==
  SelectSeq(log, LAMBDA e : e.ev = "ret" /\ e.fn = "txrx_chunk")

\* C27: each EEPROM operation (program, bulk erase, row erase, byte erase)
\* sends, in this order and nothing else, the memory writes c1 to 0x103B, the
\* byte to the target address, c2 to 0x103B, 0x00 to 0x103B, with (c1, c2) =
\* (0x02, 0x03), (0x06, 0x07), (0x0E, 0x0F), (0x16, 0x17); a successful
\* operation has sent all four, the last one being 0x00 to 0x103B
C27_EepromSequence ==
  \A name \in DOMAIN EepromControls :
    params.cmd = name =>
      LET c == EepromControls[name]
          all == LatchSequence(c[1], c[2])
      IN /\ IsPrefix(wire, all)
         /\ OpSucceeded =>
              /\ wire = all
              /\ Len(ValueCalls) = 8
              /\ SubSeq(wire, Len(wire) - 4, Len(wire)) = MemWrite(4155, 0)

C27_Witness ==
  /\ params.cmd = "eeprom_row_erase"
  /\ OpSucceeded
  /\ wire = LatchSequence(14, 15)
  /\ OpAddress = 46592
  /\ OpByte = 90

\* ------------------------------------------------------------------------
\* The EPROM operations
\* ------------------------------------------------------------------------
\* 0x20, the byte, 0x21, 0x00 with the control writes going to register reg
EpromSequence(reg) ==
  MemWrite(reg, 32) \o MemWrite(OpAddress, OpByte) \o MemWrite(reg, 33) \o MemWrite(reg, 0)

EpromRegister == [eprom_prog_byte |-> 4155, eprom_prog_e20_byte |-> 4150]

\* the steps of the standard variant with every write to 0x103B sent to 0x1036
ToE20(steps) ==
  [i \in 1..Len(steps) |->
     IF steps[i].op = "tx_chunk" /\ steps[i].buf = <<1, 16, 59>>
       THEN [steps[i] EXCEPT !.buf = <<1, 16, 54>>]
       ELSE steps[i]]

\* C28: EPROM program sends the memory writes 0x20 to the control register,
\* the byte to the target address, 0x21 and then 0x00 to the control register;
\* the standard variant uses 0x103B for all three control writes, the E20
\* variant 0x1036, and apart from that address the two do the same
C28_EpromSequence ==
  /\ \A name \in DOMAIN EpromRegister :
       params.cmd = name =>
         /\ IsPrefix(wire, EpromSequence(EpromRegister[name]))
         /\ OpSucceeded => wire = EpromSequence(EpromRegister[name])
  /\ params.cmd \in DOMAIN EpromRegister =>
       ToE20(eprom_prog_byte(OpAddress, OpByte)) = eprom_prog_e20_byte(OpAddress, OpByte)

C28_Witness ==
  /\ params.cmd = "eprom_prog_e20_byte"
  /\ OpSucceeded
  /\ wire = EpromSequence(4150)
  /\ OpAddress = 53503
  /\ OpByte = 90

\* ------------------------------------------------------------------------
\* Programming the EEPROM from a file
\* ------------------------------------------------------------------------
\* a line the loops take: an S1 line of eight characters or more
IsS1(line_str) == Len(line_str) >= 8 /\ line_str[1] = "S" /\ line_str[2] = "1"

PairAt(line_str, k) == 16 * HexVal(line_str[k]) + HexVal(line_str[k + 1])

\* the data bytes a record announces are on the line
WellFormed(line_str) ==
  /\ PairAt(line_str, 3) >= 3
  /\ Len(line_str) >= 8 + 2 * (PairAt(line_str, 3) - 3)

RecordAddr(line_str) == 256 * PairAt(line_str, 5) + PairAt(line_str, 7)

RecordData(line_str) == [i \in 1..(PairAt(line_str, 3) - 3) |-> PairAt(line_str, 7 + 2 * i)]

\* the lines of the file before the first S1 line that is not well formed
SoundLines ==
  LET bad == {k \in 1..Len(in_file) : IsS1(in_file[k]) /\ ~WellFormed(in_file[k])}
  IN IF bad = {} THEN Len(in_file) ELSE SetMin(bad) - 1

\* erase then program for the byte v at address a
EraseProgram(a, v) ==
  LET c == IF a = 4159 THEN 6 ELSE 22
  IN MemWrite(4155, c) \o MemWrite(a, v) \o MemWrite(4155, c + 1) \o MemWrite(4155, 0)
       \o MemWrite(4155, 2) \o MemWrite(a, v) \o MemWrite(4155, 3) \o MemWrite(4155, 0)

\* what a record makes write_ee send: its bytes in ascending address order
RecordWrites(line_str) ==
  LET d == RecordData(line_str)
      per == [i \in 1..Len(d) |-> EraseProgram((RecordAddr(line_str) + i - 1) % 65536, d[i])]
  IN Concat(per, 1, Len(d))

FileWrites ==
  LET per == [k \in 1..SoundLines |->
                IF IsS1(in_file[k]) THEN RecordWrites(in_file[k]) ELSE <<>>]
  IN Concat(per, 1, SoundLines)

WriteEe == prog = "TBug11" /\ params.cmd = "CMD_WRITE_EEPROM"

UsageKeywords ==
  { <<<<"u","p","t","a","l","k","e","r">>, "CMD_UPTALKER">>,
    <<<<"r","e","a","d">>, "CMD_READ">>,
    <<<<"v","e","r","i","f","y">>, "CMD_READ_VERIFY">>,
    <<<<"w","r","i","t","e","_","h","e","x">>, "CMD_WRITEHEXSTR">>,
    <<<<"w","r","i","t","e">>, "CMD_WRITE">>,
    <<<<"w","r","i","t","e","_","e","e">>, "CMD_WRITE_EEPROM">>,
    <<<<"w","r","i","t","e","_","e">>, "CMD_WRITE_EPROM">>,
    <<<<"w","r","i","t","e","_","e","2","0">>, "CMD_WRITE_EPROM_E20">> }

\* a parameter of the form key=value
IsValue(word) == \E i \in 1..Len(word) : word[i] = "="

\* the command line was parsed and process_cmd_line is about to run
Parsed == pc = "start" /\ arg_v # <<>>

\* the command line holds the keyword word and, besides it, value parameters
OnlyKeyword(word) ==
  /\ \E i \in 1..Len(arg_v) : arg_v[i] = word
  /\ \A i \in 1..Len(arg_v) : arg_v[i] = word \/ IsValue(arg_v[i])

\* C30: each keyword of the usage text (uptalker, read, verify, write_hex,
\* write, write_ee, write_e, write_e20) selects its operation, and a keyword
\* that is a prefix of another selects its own operation only
C30_Keywords ==
  Parsed => \A u \in UsageKeywords : OnlyKeyword(u[1]) => params.cmd = u[2]

\* ------------------------------------------------------------------------
\* The frame of a single-byte memory write
\* ------------------------------------------------------------------------
\* a transfer of one byte that was written, read back and passed the check
\* made under policy
ByteExchange(policy) ==
  << Ev("call", "txrx_chunk", 1, 0, 0), Ev("write", "txrx_chunk", 0, 1, 1),
     Ev("read", "txrx_chunk", 0, 1, 1), Chk("txrx_chunk", policy, 0, 1, -1),
     Ev("ret", "txrx_chunk", 1, 0, 0) >>

\* what writemem_byte does on the transport when nothing fails
FrameTrace ==
  ByteExchange("TALKER_ECHO_VERIFY_COM")
    \o << Ev("call", "tx_chunk", 3, 0, 0), Ev("write", "tx_chunk", 0, 3, 3),
          Ev("ret", "tx_chunk", 3, 0, 0) >>
    \o ByteExchange("TALKER_ECHO_VERIFY")

\* a check has just been passed under policy
Passed(policy) ==
  /\ Len(log) > 0
  /\ log[Len(log)].ev = "check"
  /\ log[Len(log)].p = policy
  /\ log[Len(log)].c = -1

\* C31: writemem_byte(a, v) is: write 0x41, read one byte that has to be the
\* complement of 0x41, write 0x01 a_hi a_lo without a read, write v, read one
\* byte that has to be v; each step of an erase or program function is one
\* such frame, and a function that ends well has made exactly four of them
C31_WriteFrame ==
  params.cmd \in ByteOps =>
    /\ Passed("TALKER_ECHO_VERIFY_COM") => wire[Len(wire)] = 65 /\ rxbuf = <<190>>
    /\ Passed("TALKER_ECHO_VERIFY") => rxbuf = <<wire[Len(wire)]>>
    /\ OpSucceeded =>
         /\ log = FrameTrace \o FrameTrace \o FrameTrace \o FrameTrace
         /\ Len(wire) = 20
         /\ \A k \in 0..3 :
              \E a \in {4155, 4150, OpAddress}, v \in 0..255 :
                SubSeq(wire, 5 * k + 1, 5 * k + 5) = <<65, 1, a \div 256, a % 256, v>>
         /\ params.cmd = "eeprom_prog_byte" => wire = LatchSequence(2, 3)

C31_Witness ==
  /\ params.cmd = "eeprom_prog_byte"
  /\ OpSucceeded
  /\ log = FrameTrace \o FrameTrace \o FrameTrace \o FrameTrace
  /\ wire = LatchSequence(2, 3)
  /\ OpByte = 255

\* ------------------------------------------------------------------------
\* One command at a time
\* ------------------------------------------------------------------------
\* the transfers that carry the payload of a command
PayloadPrimitives == {"rx_chunk", "txrx_chunk", "txrx_chunk_write"}

\* the last transfer that returned, among the latest entries of the log
LastReturn ==
  LET rets == {j \in Recent : j < Len(log) /\ log[j].ev = "ret"}
  IN IF rets = {} THEN 0 ELSE CHOOSE j \in rets : \A k \in rets : k <= j

\* the transfer of a command byte was entered right after the payload
\* transfer of the command before it returned
NextCommandEntered ==
  /\ Len(log) > 1
  /\ log[Len(log)] = Ev("call", "txrx_chunk", 1, 0, 0)
  /\ LastReturn > 0
  /\ log[LastReturn].fn \in PayloadPrimitives

\* the bytes of the payload of the command before that the program sent
PayloadSent == IF log[LastReturn].fn = "rx_chunk" THEN 0 ELSE log[LastReturn].a

\* the length byte of the command before: the parameters precede the payload
PreviousLength == wire[Len(wire) - PayloadSent - 2]

\* C32: at most one command is in flight: when the command byte of a frame is
\* about to be written, the payload transfer of the frame before it has moved
\* every byte its length byte announced (0 standing for 256), sent or received
C32_OneInFlight ==
  NextCommandEntered => log[LastReturn].a = EncodedCount(PreviousLength)

\* ------------------------------------------------------------------------
\* The chunk size of a payload (Tru11)
\* ------------------------------------------------------------------------
\* write_port has just been called for a piece of the payload of a write
PayloadWritten ==
  /\ prog = "Tru11"
  /\ Len(log) > 0
  /\ log[Len(log)].ev = "write"
  /\ log[Len(log)].fn = "txrx_chunk_write"

\* the command byte of the frame the piece belongs to: it precedes the three
\* parameters and the payload bytes sent so far
PayloadOpcode == wire[Len(wire) - log[Len(log)].a - log[Len(log)].c - 3]

\* C33: in Tru11 a payload sent under an EEPROM or EPROM write command
\* (0x03, 0x04, 0x05), from a file or from a hex string, goes out in writes of
\* at most serial_prog_txbuf_size bytes, a payload under the normal write
\* command 0x02 in writes of at most serial_txbuf_size bytes
C33_ProgChunks ==
  PayloadWritten =>
    /\ PayloadOpcode \in {2, 3, 4, 5}
    /\ PayloadOpcode \in {3, 4, 5} => log[Len(log)].b <= params.serial_prog_txbuf_size
    /\ PayloadOpcode = 2 => log[Len(log)].b <= params.serial_txbuf_size

\* ------------------------------------------------------------------------
\* The region of read-to-file
\* ------------------------------------------------------------------------
\* the bytes the read commands sent so far ask the device for
RequestedBytes == SumSeq([k \in 1..Len(ReadCommands) |-> ReadCommands[k].b])

\* the bytes of the region, none when to_addr is below from_addr
RegionSize ==
  IF params.to_addr >= params.from_addr THEN params.to_addr - params.from_addr + 1 ELSE 0

\* a read command was begun, or readmem returned
ReadmemStep ==
  /\ params.cmd = "CMD_READ"
  /\ Len(log) > 0
  /\ log[Len(log)].fn = "readmem"
  /\ log[Len(log)].ev \in {"command", "done"}

\* C34: read-to-file transfers data only for a region with to_addr >=
\* from_addr; what it asks the device for is to_addr - from_addr + 1 bytes in
\* all and never more than 65536, whatever from_addr and to_addr are
C34_RegionBound ==
  ReadmemStep =>
    /\ Len(ReadCommands) > 0 => params.to_addr >= params.from_addr
    /\ RequestedBytes <= 65536
    /\ RequestedBytes <= RegionSize
    /\ log[Len(log)].ev = "done" =>
         RequestedBytes = RegionSize

\* ------------------------------------------------------------------------
\* The counts of the reports
\* ------------------------------------------------------------------------
\* a report was just printed: for a line, or for the session
LineReported ==
  /\ CountingRun
  /\ Len(log) > 0
  /\ log[Len(log)].ev = "compared"

SessionReported ==
  /\ CountingRun
  /\ Len(log) > 0
  /\ log[Len(log)].ev = "summary"

\* C35: in the report of a line and in the summary of verify-against-file and
\* of Tru11's write-from-file every data byte is counted once as matched,
\* mismatched or ignored: when a report gives a matched count, that count plus
\* the mismatched and the ignored bytes is the number of data bytes of the
\* line, respectively of the session
C35_CountsAddUp ==
  /\ LineReported =>
       (tally.report.matched >= 0 =>
          tally.report.matched + log[Len(log)].b + log[Len(log)].c = log[Len(log)].a)
  /\ SessionReported =>
       (tally.report.matched >= 0 =>
          tally.report.matched + log[Len(log)].b + log[Len(log)].c = log[Len(log)].a)

\* ------------------------------------------------------------------------
\* The confirmation prompt
\* ------------------------------------------------------------------------
\* the subcommands that write the EEPROM or the EPROM
Prompted ==
  \/ /\ prog = "Tru11"
     /\ params.cmd \in {"CMD_WRITE_EE_HEXSTR", "CMD_WRITE_EE", "CMD_WRITE_E", "CMD_WRITE_E20"}
  \/ /\ prog = "TBug11"
     /\ params.cmd \in {"CMD_WRITE_EEPROM", "CMD_WRITE_EPROM", "CMD_WRITE_EPROM_E20"}

\* the prompt was answered with a line starting with y
AnsweredYes == Len(params.answer) > 0 /\ params.answer[1] = "y"

\* a byte went to or came from the serial transport
Transferred ==
  \/ wire # <<>>
  \/ \E i \in 1..Len(log) : log[i].ev \in {"write", "read"}

\* C36: a subcommand that writes the EEPROM or the EPROM, in either program,
\* writes no byte to and reads no byte from the serial transport unless the
\* confirmation prompt was answered with a line starting with y; after any
\* other answer, or at the end of input, the invocation ends with exit status
\* 0 and has sent nothing
C36_Confirmation ==
  (Prompted /\ ~AnsweredYes) =>
    /\ ~Transferred
    /\ err.id = "none"
    /\ pc = "done" => exit_code = 0

C36_Witness ==
  /\ Prompted
  /\ params.answer = <<"n", "\n">>
  /\ pc = "done"
  /\ exit_code = 0
  /\ wire = <<>>

\* ------------------------------------------------------------------------
\* The block protect register around write_ee
\* ------------------------------------------------------------------------
\* the memory writes on the line: five bytes each, the last one perhaps cut
\* short by an error
WireWrites == Len(wire) \div 5

WireWrite(k) == SubSeq(wire, 5 * k - 4, 5 * k)

\* the address a memory write names
WriteAddress(k) == WireWrite(k)[3] * 256 + WireWrite(k)[4]

\* C37: in TBug11's write_ee subcommand the first memory write is 0x00 to the
\* block protect register 0x1035, every erase and program step comes after it,
\* and when the programming completes without error the last memory write is
\* 0x1F to 0x1035
C37_ProtectAround ==
  WriteEe =>
    /\ IF WireWrites >= 1 THEN WireWrite(1) = MemWrite(4149, 0)
                          ELSE IsPrefix(wire, MemWrite(4149, 0))
    /\ \A k \in 1..WireWrites : WriteAddress(k) # 4149 => k > 1
    /\ (pc = "done" /\ exit_code = 0 /\ AnsweredYes) =>
         /\ Len(wire) = 5 * WireWrites
         /\ WireWrites >= 2
         /\ WireWrite(WireWrites) = MemWrite(4149, 31)
         /\ \A k \in 2..(WireWrites - 1) : WriteAddress(k) # 4149

C37_Witness ==
  /\ WriteEe
  /\ in_file = BulkFile
  /\ pc = "done"
  /\ exit_code = 0
  /\ WireWrites > 2
  /\ WireWrite(1) = MemWrite(4149, 0)
  /\ WireWrite(WireWrites) = MemWrite(4149, 31)
  /\ \E k \in 2..(WireWrites - 1) : WriteAddress(k) = 4155

\* ------------------------------------------------------------------------
\* The bootstrap loader and the end of the line
\* ------------------------------------------------------------------------
\* the lines the loader has been through, and the data bytes it took of each
LinesLoaded ==
  SelectSeq(log, LAMBDA e : e.ev = "line" /\ e.fn = "send_control_program")

\* the byte pairs a line holds after its count field
PairsPresent(line) == (Len(line) - 4) \div 2

\* the two characters of data byte i of a line (i from 0) are in the line and
\* are hexadecimal digits
TwoDigits(line, i) ==
  /\ 2 * i + 10 <= Len(line)
  /\ HexVal(line[2 * i + 9]) >= 0
  /\ HexVal(line[2 * i + 10]) >= 0

\* C38: the bootstrap loader takes data bytes from an S1 line only when the
\* byte count the line declares does not exceed the byte pairs present after
\* the count field: it decodes no character beyond the end of a line, and
\* every byte of the image comes from two hexadecimal digits of the file
C38_LoaderBounds ==
  /\ err.id # "std::out_of_range"
  /\ \A k \in 1..Len(LinesLoaded) :
       LET e == LinesLoaded[k]
           line == talker_file[e.a]
       IN e.b > 0 =>
            /\ srec_bytecount(line) <= PairsPresent(line)
            /\ \A i \in 0..(e.b - 1) : TwoDigits(line, i)
====
